---- MODULE Spec2Model ----
(***************************************************************************)
(* A model of the GPLANG compiler front end: the lexer                     *)
(* (src/src/frontend/lexer.c), the recursive-descent parser                *)
(* (src/src/frontend/parser.c, ast.c), the semantic analyzer               *)
(* (src/src/frontend/semantic.c), the IR data structures (src/src/ir) and  *)
(* the driver (src/src/main.c) and the memory-safety tracker               *)
(* (src/src/safety/memory_safety.c).                                       *)
(*                                                                         *)
(* Text is a sequence of one-character strings; the C string terminator is *)
(* NUL; an absent pointer is NULL (a node) or NullStr (a string).          *)
(***************************************************************************)
EXTENDS Integers, Sequences, FiniteSets, TLC

VARIABLES
    lexer,      \* the Lexer object (lexer.h: Lexer)
    lexToks,    \* the tokens lexer_next_token has returned for the current text
    lexPass,    \* 1: scanning the input text, 2: scanning the rejoined lexemes
    lexFirst,   \* the tokens of pass 1, kept while pass 2 runs
    lexInput,   \* the text pass 1 was created on
    g_parser,   \* the parser state (parser.c: g_parser)
    pinput,     \* the token array handed to parse()
    pstack,     \* the call stack of the productions that are running
    pret,       \* the value of the most recent return of a production
    pstate,     \* "idle", "running", "returned" or "fault"
    presult,    \* what parse() returned
    psteps,     \* the number of parser steps this run has taken
    g_analyzer, \* the analyzer state (semantic.c: g_analyzer)
    sroot,      \* the AST handed to semantic_analyze()
    spos,       \* how many children of the program analyze_program has done
    sstate,     \* "idle", "running" or "returned"
    sresult,    \* what semantic_analyze() returned
    ir_builder, \* the IR builder and, in it, the module under construction
    irFunc,     \* the function (ast_node_t) being lowered
    irPos,      \* how many statements of its body are lowered
    irState,    \* "idle", "lowering", "done" or "fault"
    argv,       \* the command line of gplang (main.c: main's argc, argv)
    options,    \* the CompilerOptions that parse_arguments returned
    out_file,   \* the lines of the file named by options.output_file
    std_out,    \* the lines written to stdout
    std_err,    \* the lines written to stderr
    mainPc,     \* where main() is
    mainLine,   \* how many lines of its IR frontend_mode has written
    mainResult, \* the value main() returns, -1 while it runs
    parked,     \* the locals of a second parse() run that is not on the processor
    prModule,   \* an IRModule built by calls of the constructors of ir.c
    prTwin,     \* a second IRModule built by the same calls
    prDump,     \* what ir_module_print wrote for prModule
    prTwinDump, \* what ir_module_print wrote for prTwin
    g_safety_context, \* the tracker state (memory_safety.c: g_safety_context)
    handles     \* the borrow handles the callers of the tracker hold

lexVars == <<lexer, lexToks, lexPass, lexFirst, lexInput>>
parVars == <<g_parser, pinput, pstack, pret, pstate, presult, psteps>>
semVars == <<g_analyzer, sroot, spos, sstate, sresult>>
irVars == <<ir_builder, irFunc, irPos, irState>>
drvVars == <<argv, options, out_file, std_out, std_err, mainPc, mainLine, mainResult>>

concVars == <<parked>>
prVars == <<prModule, prTwin, prDump, prTwinDump>>
msVars == <<g_safety_context, handles>>

vars == <<lexVars, parVars, semVars, irVars, drvVars, concVars, prVars, msVars>>

\* what the actions of one component leave alone
notLex == <<parVars, semVars, irVars, drvVars, concVars, prVars, msVars>>
notPar == <<lexVars, semVars, irVars, drvVars, concVars, prVars, msVars>>
notSem == <<lexVars, parVars, irVars, drvVars, concVars, prVars, msVars>>
notIr == <<lexVars, parVars, semVars, drvVars, concVars, prVars, msVars>>
notDrv == <<lexVars, parVars, semVars, irVars, concVars, prVars, msVars>>
notPr == <<lexVars, parVars, semVars, irVars, drvVars, concVars, msVars>>
notMs == <<lexVars, parVars, semVars, irVars, drvVars, concVars, prVars>>

(***************************************************************************)
(* Bounds                                                                  *)
(***************************************************************************)
\* longest source text drawn from Alphabet
MaxLen == 3
\* most binary operators in a generated expression
MaxOps == 3
\* parser steps of one parse() run the model follows
MaxSteps == 40
\* most top-level statements of a generated program
MaxStmts == 3

(***************************************************************************)
(* Characters and strings                                                  *)
(***************************************************************************)
NUL == ""
NullStr == <<"NULL">>

Digits == {"0", "1", "2", "3", "4", "5", "6", "7", "8", "9"}
Letters ==
    {"a", "b", "c", "d", "e", "f", "g", "h", "i", "j", "k", "l", "m",
     "n", "o", "p", "q", "r", "s", "t", "u", "v", "w", "x", "y", "z",
     "A", "B", "C", "D", "E", "F", "G", "H", "I", "J", "K", "L", "M",
     "N", "O", "P", "Q", "R", "S", "T", "U", "V", "W", "X", "Y", "Z"}

\* s[from+1 .. to]: the text strncpy copies from offset `from` up to `to`
Slice(s, from, to) == [i \in 1..(to - from) |-> s[from + i]]

(***************************************************************************)
(* Lexer (src/src/frontend/lexer.c)                                        *)
(***************************************************************************)
keywords ==
    <<
       [keyword |-> <<"f", "u", "n", "c">>, type |-> "TOKEN_FUNC"],
       [keyword |-> <<"f", "u", "n">>, type |-> "TOKEN_FUN"],
       [keyword |-> <<"f", "u">>, type |-> "TOKEN_FU"],
       [keyword |-> <<"v", "a", "r">>, type |-> "TOKEN_VAR"],
       [keyword |-> <<"i", "f">>, type |-> "TOKEN_IF"],
       [keyword |-> <<"e", "l", "i", "f">>, type |-> "TOKEN_ELIF"],
       [keyword |-> <<"e", "l", "s", "e">>, type |-> "TOKEN_ELSE"],
       [keyword |-> <<"w", "h", "i", "l", "e">>, type |-> "TOKEN_WHILE"],
       [keyword |-> <<"f", "o", "r">>, type |-> "TOKEN_FOR"],
       [keyword |-> <<"i", "n">>, type |-> "TOKEN_IN"],
       [keyword |-> <<"r", "e", "t", "u", "r", "n">>, type |-> "TOKEN_RETURN"],
       [keyword |-> <<"a", "n", "d">>, type |-> "TOKEN_AND"],
       [keyword |-> <<"o", "r">>, type |-> "TOKEN_OR"],
       [keyword |-> <<"n", "o", "t">>, type |-> "TOKEN_NOT"],
       [keyword |-> <<"t", "r", "u", "e">>, type |-> "TOKEN_TRUE"],
       [keyword |-> <<"f", "a", "l", "s", "e">>, type |-> "TOKEN_FALSE"],
       [keyword |-> <<"i", "m", "p", "o", "r", "t">>, type |-> "TOKEN_IMPORT"],
       [keyword |-> <<"u", "n", "s", "a", "f", "e">>, type |-> "TOKEN_UNSAFE"],
       [keyword |-> <<"a", "s", "y", "n", "c">>, type |-> "TOKEN_ASYNC"],
       [keyword |-> <<"a", "w", "a", "i", "t">>, type |-> "TOKEN_AWAIT"],
       [keyword |-> <<"s", "p", "a", "w", "n">>, type |-> "TOKEN_SPAWN"],
       [keyword |-> <<"m", "a", "t", "c", "h">>, type |-> "TOKEN_MATCH"],
       [keyword |-> <<"S", "o", "m", "e">>, type |-> "TOKEN_SOME"],
       [keyword |-> <<"N", "o", "n", "e">>, type |-> "TOKEN_NONE"],
       [keyword |-> <<"O", "k">>, type |-> "TOKEN_OK"],
       [keyword |-> <<"E", "r", "r">>, type |-> "TOKEN_ERR"],
       [keyword |-> <<"O", "p", "t", "i", "o", "n">>, type |-> "TOKEN_OPTION"],
       [keyword |-> <<"R", "e", "s", "u", "l", "t">>, type |-> "TOKEN_RESULT"],
       [keyword |-> <<"t", "e", "s", "t">>, type |-> "TOKEN_TEST"],
       [keyword |-> <<"b", "e", "n", "c", "h">>, type |-> "TOKEN_BENCH"],
       [keyword |-> <<"i", "n", "t">>, type |-> "TOKEN_INT"],
       [keyword |-> <<"f", "l", "o", "a", "t">>, type |-> "TOKEN_FLOAT"],
       [keyword |-> <<"s", "t", "r">>, type |-> "TOKEN_STR"],
       [keyword |-> <<"s", "t", "r", "i", "n", "g">>, type |-> "TOKEN_STRING_TYPE"],
       [keyword |-> <<"b", "o", "o", "l">>, type |-> "TOKEN_BOOL"],
       [keyword |-> <<"l", "i", "s", "t">>, type |-> "TOKEN_LIST"],
       [keyword |-> <<"d", "i", "c", "t">>, type |-> "TOKEN_DICT"],
       [keyword |-> <<"s", "e", "t">>, type |-> "TOKEN_SET"],
       [keyword |-> <<"t", "u", "p", "l", "e">>, type |-> "TOKEN_TUPLE"],
       [keyword |-> <<"F", "u", "t", "u", "r", "e">>, type |-> "TOKEN_FUTURE"],
       [keyword |-> <<"C", "h", "a", "n", "n", "e", "l">>, type |-> "TOKEN_CHANNEL"],
       [keyword |-> <<"T", "a", "s", "k">>, type |-> "TOKEN_TASK"],
       [keyword |-> <<"V", "e", "c", "2">>, type |-> "TOKEN_VEC2"],
       [keyword |-> <<"V", "e", "c", "3">>, type |-> "TOKEN_VEC3"],
       [keyword |-> <<"V", "e", "c", "4">>, type |-> "TOKEN_VEC4"],
       [keyword |-> <<"M", "a", "t", "r", "i", "x", "4">>, type |-> "TOKEN_MATRIX4"],
       [keyword |-> <<"C", "o", "l", "o", "r">>, type |-> "TOKEN_COLOR"],
       [keyword |-> <<"T", "i", "m", "e">>, type |-> "TOKEN_TIME"],
       [keyword |-> <<"R", "e", "f">>, type |-> "TOKEN_REF"],
       [keyword |-> <<"M", "u", "t">>, type |-> "TOKEN_MUT"],
       [keyword |-> <<"o", "s">>, type |-> "TOKEN_OS"],
       [keyword |-> <<"s", "y", "s">>, type |-> "TOKEN_SYS"],
       [keyword |-> <<"e", "n", "v">>, type |-> "TOKEN_ENV"],
       [keyword |-> <<"p", "r", "o", "c", "e", "s", "s">>, type |-> "TOKEN_PROCESS"],
       [keyword |-> <<"s", "t", "d">>, type |-> "TOKEN_STD"]
    >>

lexer_create(source) ==
    [source |-> source, source_length |-> Len(source), position |-> 0,
     line |-> 1, column |-> 1, has_errors |-> FALSE, error_message |-> NullStr]

token_create(type, value, line, column) ==
    [type |-> type, value |-> value, line |-> line, column |-> column,
     length |-> IF value = NullStr THEN 0 ELSE Len(value)]

current_char(L) ==
    IF L.position >= L.source_length THEN NUL ELSE L.source[L.position + 1]

\* advance without its test for the end of the source
lexer_advance_unchecked(L) ==
    IF L.position < L.source_length /\ L.source[L.position + 1] = "\n"
    THEN [L EXCEPT !.position = @ + 1, !.line = @ + 1, !.column = 1]
    ELSE [L EXCEPT !.position = @ + 1, !.column = @ + 1]

lexer_advance(L) ==
    IF L.position >= L.source_length THEN L
    ELSE IF L.source[L.position + 1] = "\n"
         THEN [L EXCEPT !.position = @ + 1, !.line = @ + 1, !.column = 1]
         ELSE [L EXCEPT !.position = @ + 1, !.column = @ + 1]

RECURSIVE skip_whitespace(_)
skip_whitespace(L) ==
    IF current_char(L) # NUL /\ current_char(L) \in {" ", "\t", "\r"}
    THEN skip_whitespace(lexer_advance(L))
    ELSE L

is_keyword(text) == \E i \in 1..Len(keywords) : keywords[i].keyword = text

get_keyword_type(text) ==
    IF \E i \in 1..Len(keywords) : keywords[i].keyword = text
    THEN LET i == CHOOSE j \in 1..Len(keywords) :
                      /\ keywords[j].keyword = text
                      /\ \A k \in 1..(j - 1) : keywords[k].keyword # text
         IN keywords[i].type
    ELSE "TOKEN_IDENTIFIER"

is_digit(ch) == ch \in Digits
is_alpha(ch) == ch \in Letters
is_identifier_char(ch) == ch \in Letters \/ ch \in Digits \/ ch = "_"

RECURSIVE SkipIdentifierChars(_)
SkipIdentifierChars(L) ==
    IF is_identifier_char(current_char(L))
    THEN SkipIdentifierChars(lexer_advance(L)) ELSE L

RECURSIVE SkipDigits(_)
SkipDigits(L) ==
    IF is_digit(current_char(L)) THEN SkipDigits(lexer_advance(L)) ELSE L

\* each scanner returns [lexer |-> the lexer afterwards, token |-> the token]
\* read_identifier with the copied length one short
read_identifier_short(L) ==
    LET L1 == SkipIdentifierChars(L)
        text == Slice(L.source, L.position, L1.position - 1)
        type == IF is_keyword(text) THEN get_keyword_type(text)
                ELSE "TOKEN_IDENTIFIER"
    IN [lexer |-> L1, token |-> token_create(type, text, L.line, L.column)]

read_identifier(L) ==
    LET L1 == SkipIdentifierChars(L)
        text == Slice(L.source, L.position, L1.position)
        type == IF is_keyword(text) THEN get_keyword_type(text)
                ELSE "TOKEN_IDENTIFIER"
    IN [lexer |-> L1, token |-> token_create(type, text, L.line, L.column)]

read_number(L) ==
    LET L1 == SkipDigits(L)
        L2 == IF current_char(L1) = "." THEN SkipDigits(lexer_advance(L1)) ELSE L1
        L3 == IF current_char(L2) = "f" THEN lexer_advance(L2) ELSE L2
        text == Slice(L.source, L.position, L3.position)
    IN [lexer |-> L3,
        token |-> token_create("TOKEN_NUMBER", text, L.line, L.column)]

lexer_error(L, message) ==
    [L EXCEPT !.has_errors = TRUE, !.error_message = message]

RECURSIVE SkipStringBody(_)
SkipStringBody(L) ==
    IF current_char(L) # NUL /\ current_char(L) # "\""
    THEN SkipStringBody(
             lexer_advance(IF current_char(L) = "\\" THEN lexer_advance(L) ELSE L))
    ELSE L

read_string(L) ==
    LET L1 == lexer_advance(L)
        L2 == SkipStringBody(L1)
    IN IF current_char(L2) = "\""
       THEN [lexer |-> lexer_advance(L2),
             token |-> token_create("TOKEN_STRING",
                                    Slice(L.source, L1.position, L2.position),
                                    L.line, L.column)]
       ELSE [lexer |-> lexer_error(L2, "Unterminated string literal"),
             token |-> token_create("TOKEN_ERROR", NullStr, L.line, L.column)]

RECURSIVE SkipComment(_)
SkipComment(L) ==
    IF current_char(L) # NUL /\ current_char(L) # "\n"
    THEN SkipComment(lexer_advance(L)) ELSE L

SingleCharTokens ==
    [type |-> [c \in {"\n", "+", "-", "*", "/", "%", "(", ")", "[", "]",
                      "{", "}", ",", ".", ":", ";"} |->
                 CASE c = "\n" -> "TOKEN_NEWLINE"
                   [] c = "+" -> "TOKEN_PLUS"
                   [] c = "-" -> "TOKEN_MINUS"
                   [] c = "*" -> "TOKEN_MULTIPLY"
                   [] c = "/" -> "TOKEN_DIVIDE"
                   [] c = "%" -> "TOKEN_MODULO"
                   [] c = "(" -> "TOKEN_LEFT_PAREN"
                   [] c = ")" -> "TOKEN_RIGHT_PAREN"
                   [] c = "[" -> "TOKEN_LEFT_BRACKET"
                   [] c = "]" -> "TOKEN_RIGHT_BRACKET"
                   [] c = "{" -> "TOKEN_LEFT_BRACE"
                   [] c = "}" -> "TOKEN_RIGHT_BRACE"
                   [] c = "," -> "TOKEN_COMMA"
                   [] c = "." -> "TOKEN_DOT"
                   [] c = ":" -> "TOKEN_COLON"
                   [] c = ";" -> "TOKEN_SEMICOLON"]]

\* the four operators that take an optional trailing '='
TwoCharTokens ==
    [c \in {"=", "!", "<", ">"} |->
        CASE c = "=" -> [one |-> "TOKEN_ASSIGN", two |-> "TOKEN_EQ"]
          [] c = "!" -> [one |-> "TOKEN_NOT", two |-> "TOKEN_NE"]
          [] c = "<" -> [one |-> "TOKEN_LT", two |-> "TOKEN_LE"]
          [] c = ">" -> [one |-> "TOKEN_GT", two |-> "TOKEN_GE"]]

\* lexer_next_token without the advance over an unknown character
lexer_next_token_retry(L0) ==
    LET L == skip_whitespace(L0)
        ch == current_char(L)
        line == L.line
        column == L.column
        L1 == lexer_advance(L)
    IN IF L.position >= L.source_length
       THEN [lexer |-> L, token |-> token_create("TOKEN_EOF", NullStr, line, column)]
       ELSE IF ch \in DOMAIN SingleCharTokens.type
       THEN [lexer |-> L1,
             token |-> token_create(SingleCharTokens.type[ch], <<ch>>, line, column)]
       ELSE IF ch \in DOMAIN TwoCharTokens
       THEN IF current_char(L1) = "="
            THEN [lexer |-> lexer_advance(L1),
                  token |-> token_create(TwoCharTokens[ch].two, <<ch, "=">>,
                                         line, column)]
            ELSE [lexer |-> L1,
                  token |-> token_create(TwoCharTokens[ch].one, <<ch>>, line, column)]
       ELSE IF ch = "#"
       THEN LET L2 == SkipComment(L)
            IN [lexer |-> L2,
                token |-> token_create("TOKEN_COMMENT",
                                       Slice(L.source, L.position, L2.position),
                                       line, column)]
       ELSE IF ch = "\"" THEN read_string(L)
       ELSE IF is_digit(ch) THEN read_number(L)
       ELSE IF is_alpha(ch) \/ ch = "_" THEN read_identifier(L)
       ELSE [lexer |-> L, token |-> token_create("TOKEN_ERROR", NullStr, line, column)]

lexer_next_token(L0) ==
    LET L == skip_whitespace(L0)
        ch == current_char(L)
        line == L.line
        column == L.column
        L1 == lexer_advance(L)
    IN IF L.position >= L.source_length
       THEN [lexer |-> L, token |-> token_create("TOKEN_EOF", NullStr, line, column)]
       ELSE IF ch \in DOMAIN SingleCharTokens.type
       THEN [lexer |-> L1,
             token |-> token_create(SingleCharTokens.type[ch], <<ch>>, line, column)]
       ELSE IF ch \in DOMAIN TwoCharTokens
       THEN IF current_char(L1) = "="
            THEN [lexer |-> lexer_advance(L1),
                  token |-> token_create(TwoCharTokens[ch].two, <<ch, "=">>,
                                         line, column)]
            ELSE [lexer |-> L1,
                  token |-> token_create(TwoCharTokens[ch].one, <<ch>>, line, column)]
       ELSE IF ch = "#"
       THEN LET L2 == SkipComment(L)
            IN [lexer |-> L2,
                token |-> token_create("TOKEN_COMMENT",
                                       Slice(L.source, L.position, L2.position),
                                       line, column)]
       ELSE IF ch = "\"" THEN read_string(L)
       ELSE IF is_digit(ch) THEN read_number(L)
       ELSE IF is_alpha(ch) \/ ch = "_" THEN read_identifier(L)
       ELSE [lexer |-> L1, token |-> token_create("TOKEN_ERROR", NullStr, line, column)]

(***************************************************************************)
(* AST (src/src/frontend/parser.h, ast.c)                                  *)
(***************************************************************************)
NULL == [type |-> "NULL"]
NullTok == [type |-> "NULL"]

create_ast_node(type) == [type |-> type, children |-> <<>>]

create_number_node(value) == [type |-> "AST_NUMBER", children |-> <<>>, value |-> value]
create_string_node(value) == [type |-> "AST_STRING", children |-> <<>>, value |-> value]
create_identifier_node(name) ==
    [type |-> "AST_IDENTIFIER", children |-> <<>>, name |-> name]
create_boolean_node(value) ==
    [type |-> "AST_BOOLEAN", children |-> <<>>,
     value |-> IF value THEN <<"t", "r", "u", "e">> ELSE <<"f", "a", "l", "s", "e">>]

add_child(parent, child) ==
    IF parent = NULL \/ child = NULL THEN parent
    ELSE [parent EXCEPT !.children = Append(@, child)]

\* the productions ast.c leaves as stubs: each creates its node and
\* consumes no token
parse_parameter_list == create_ast_node("AST_BLOCK")
parse_type == create_identifier_node(<<"a", "u", "t", "o">>)
parse_return_statement == create_ast_node("AST_RETURN")
parse_variable_declaration == create_ast_node("AST_VARIABLE")
parse_import_statement == create_ast_node("AST_IMPORT")
parse_expression_statement == create_ast_node("AST_EXPRESSION_STMT")
parse_match_case == create_ast_node("AST_BLOCK")
parse_array_literal == create_ast_node("AST_ARRAY")
parse_object_literal == create_ast_node("AST_OBJECT")
parse_block == create_ast_node("AST_BLOCK")

BinaryNode(operator, left, right) ==
    [type |-> "AST_BINARY_OP", children |-> <<>>,
     operator |-> operator, left |-> left, right |-> right]

(***************************************************************************)
(* Parser (src/src/frontend/parser.c)                                      *)
(***************************************************************************)
ErrorCapacity == 100

parser_init ==
    [tokens |-> <<>>, token_count |-> 0, current |-> 0, root |-> NULL,
     errors |-> [errors |-> <<>>, count |-> 0, capacity |-> ErrorCapacity]]

peek(P) ==
    IF P.current >= P.token_count THEN P.tokens[P.token_count]
    ELSE P.tokens[P.current + 1]

is_at_end(P) == P.current >= P.token_count \/ peek(P).type = "TOKEN_EOF"

check(P, type) == IF is_at_end(P) THEN FALSE ELSE peek(P).type = type

\* advance(): the parser afterwards; its result is tokens[current - 1]
parser_advance(P) == IF ~is_at_end(P) THEN [P EXCEPT !.current = @ + 1] ELSE P

\* add_error without its test of the capacity
add_error_unchecked(P, message) ==
    [P EXCEPT !.errors.count = @ + 1,
              !.errors.errors =
                  Append(@, [message |-> message, line |-> peek(P).line,
                             column |-> peek(P).column])]

add_error(P, message) ==
    IF P.errors.count >= P.errors.capacity THEN P
    ELSE [P EXCEPT !.errors.count = @ + 1,
                   !.errors.errors =
                       Append(@, [message |-> message, line |-> peek(P).line,
                                  column |-> peek(P).column])]

\* match(): [parser, matched]
match(P, type) ==
    IF check(P, type) THEN [parser |-> parser_advance(P), matched |-> TRUE]
    ELSE [parser |-> P, matched |-> FALSE]

\* consume(): [parser, token], the token NullTok when the kind does not match
consume(P, type, message) ==
    IF check(P, type)
    THEN [parser |-> parser_advance(P), token |-> P.tokens[P.current + 1]]
    ELSE [parser |-> add_error(P, message), token |-> NullTok]

get_operator_precedence(type) ==
    CASE type = "TOKEN_OR" -> 1
      [] type = "TOKEN_AND" -> 2
      [] type \in {"TOKEN_EQ", "TOKEN_NE"} -> 3
      [] type \in {"TOKEN_LT", "TOKEN_LE", "TOKEN_GT", "TOKEN_GE"} -> 4
      [] type \in {"TOKEN_PLUS", "TOKEN_MINUS"} -> 5
      [] type \in {"TOKEN_MULTIPLY", "TOKEN_DIVIDE", "TOKEN_MODULO"} -> 6
      [] type = "TOKEN_POWER" -> 7
      [] OTHER -> 0

is_right_associative(type) == type = "TOKEN_POWER"

\* parse_primary on a token that starts no parenthesized expression:
\* [parser, node]
parse_primary_leaf(P) ==
    LET token == peek(P)
    IN CASE token.type = "TOKEN_NUMBER" ->
              [parser |-> parser_advance(P), node |-> create_number_node(token.value)]
         [] token.type = "TOKEN_STRING" ->
              [parser |-> parser_advance(P), node |-> create_string_node(token.value)]
         [] token.type = "TOKEN_IDENTIFIER" ->
              [parser |-> parser_advance(P),
               node |-> create_identifier_node(token.value)]
         [] token.type \in {"TOKEN_TRUE", "TOKEN_FALSE"} ->
              [parser |-> parser_advance(P),
               node |-> create_boolean_node(token.type = "TOKEN_TRUE")]
         [] token.type = "TOKEN_LEFT_BRACKET" ->
              [parser |-> P, node |-> parse_array_literal]
         [] token.type = "TOKEN_LEFT_BRACE" ->
              [parser |-> P, node |-> parse_object_literal]
         [] OTHER ->
              [parser |-> add_error(P, "Unexpected token in expression"),
               node |-> NULL]

\* the second argument of parse_binary's recursive call
RecursionMinPrecedence(precedence) == precedence + 1

\* parse_binary's test for re-parsing the right operand
BindsRight(op_type, precedence, next_precedence) ==
    \/ precedence < next_precedence
    \/ (precedence = next_precedence /\ is_right_associative(op_type))

\* parse_function: [parser, node, fault]; fault when name_token is absent
\* and name_token->value is read
parse_function(P) ==
    LET c1 == consume(P, "TOKEN_FUNC", "Expected 'func'")
        c2 == consume(c1.parser, "TOKEN_IDENTIFIER", "Expected function name")
        c3 == consume(c2.parser, "TOKEN_LEFT_PAREN", "Expected '(' after function name")
        c4 == consume(c3.parser, "TOKEN_RIGHT_PAREN", "Expected ')' after parameters")
        m5 == match(c4.parser, "TOKEN_ARROW")
        c6 == consume(m5.parser, "TOKEN_COLON", "Expected ':' before function body")
    IN IF c2.token = NullTok
       THEN [parser |-> c2.parser, node |-> NULL, fault |-> TRUE]
       ELSE [parser |-> c6.parser,
             node |-> [type |-> "AST_FUNCTION", children |-> <<>>,
                       name |-> c2.token.value,
                       parameters |-> parse_parameter_list,
                       return_type |-> IF m5.matched THEN parse_type ELSE NULL,
                       body |-> parse_block],
             fault |-> FALSE]


\* the parser before parser_init's caller has handed it anything
ParIdle ==
    /\ g_parser = parser_init
    /\ pinput = <<>>
    /\ pstack = <<>>
    /\ pret = NULL
    /\ pstate = "idle"
    /\ presult = NULL
    /\ psteps = 0

(***************************************************************************)
(* Semantic analyzer (src/src/frontend/semantic.c)                         *)
(*                                                                         *)
(* The symbol tables live in g_analyzer.scopes; a table is named by its    *)
(* index there and `parent` is the index of the enclosing table (0: none). *)
(* Tables are created and freed last-in first-out.                         *)
(***************************************************************************)
SymbolCapacity == 16
SemanticErrorCapacity == 100

create_symbol_table(parent) ==
    [symbols |-> <<>>, count |-> 0, capacity |-> SymbolCapacity, parent |-> parent]

create_symbol(name, kind) ==
    [name |-> name, kind |-> kind, type |-> NULL, is_const |-> 0]

add_symbol(table, symbol) ==
    IF table.count < table.capacity
    THEN [table EXCEPT !.symbols = Append(@, symbol), !.count = @ + 1]
    ELSE table

\* both lookups are left unimplemented: they find nothing
lookup_symbol(G, table, name) == NULL
lookup_symbol_local(G, table, name) == NULL

create_type(kind) == [kind |-> kind, return_type |-> NULL]
create_function_type == create_type("TYPE_FUNCTION")
get_void_type == [kind |-> "TYPE_VOID", return_type |-> NULL]
resolve_type(type_node) == get_void_type
get_expression_type(expr) == get_void_type
types_compatible(t1, t2) == t1 # NULL /\ t2 # NULL /\ t1.kind = t2.kind
is_binary_operator_valid(op, left, right) == TRUE

\* the message is kept as the format and its argument
add_semantic_error(G, format, arg) ==
    IF G.errors.count >= G.errors.capacity THEN G
    ELSE [G EXCEPT !.errors.count = @ + 1,
                   !.errors.errors =
                       Append(@, [message |-> <<format, arg>>, line |-> 0,
                                  column |-> 0])]

\* add_symbol on the table at index `scope`
AddToScope(G, scope, symbol) ==
    [G EXCEPT !.scopes[scope] = add_symbol(@, symbol)]

\* add_builtin_type and add_builtin_function are empty: print is the only
\* built-in that reaches the global scope
add_builtin_functions(G) ==
    AddToScope(G, G.global_scope,
               [create_symbol(<<"p", "r", "i", "n", "t">>, "SYMBOL_FUNCTION")
                    EXCEPT !.type = create_function_type])

semantic_init ==
    add_builtin_functions(
        [scopes |-> <<create_symbol_table(0)>>,
         global_scope |-> 1,
         current_scope |-> 1,
         errors |-> [errors |-> <<>>, count |-> 0,
                     capacity |-> SemanticErrorCapacity],
         in_function |-> 0,
         current_function_return_type |-> NULL])

RECURSIVE analyze_node(_, _)
RECURSIVE analyze_children(_, _, _)

\* for (i = 0; i < node->child_count; i++) analyze_node(node->children[i])
analyze_children(G, children, i) ==
    IF i > Len(children) THEN G
    ELSE analyze_children(analyze_node(G, children[i]), children, i + 1)

analyze_program(G, node) == analyze_children(G, node.children, 1)

analyze_block(G, node) == analyze_children(G, node.children, 1)

\* analyze_function without the restoring of in_function
analyze_function_no_restore(G, node) ==
    LET func_name == node.name
        func_symbol == [create_symbol(func_name, "SYMBOL_FUNCTION")
                            EXCEPT !.type = create_function_type]
        G1 == AddToScope(G, G.current_scope, func_symbol)
        G2 == [G1 EXCEPT !.scopes = Append(@, create_symbol_table(G.current_scope)),
                         !.current_scope = Len(G1.scopes) + 1,
                         !.in_function = 1,
                         !.current_function_return_type = func_symbol.type.return_type]
        G4 == analyze_node(analyze_node(G2, node.parameters), node.body)
    IN [G4 EXCEPT !.scopes = SubSeq(@, 1, Len(@) - 1),
                  !.current_scope = G.current_scope,
                  !.current_function_return_type = G.current_function_return_type]

\* analyze_function leaving the scope of the body as the current scope
analyze_function_keep_scope(G, node) ==
    LET func_name == node.name
        func_symbol == [create_symbol(func_name, "SYMBOL_FUNCTION")
                            EXCEPT !.type = create_function_type]
        G1 == AddToScope(G, G.current_scope, func_symbol)
        G2 == [G1 EXCEPT !.scopes = Append(@, create_symbol_table(G.current_scope)),
                         !.current_scope = Len(G1.scopes) + 1,
                         !.in_function = 1,
                         !.current_function_return_type = func_symbol.type.return_type]
        G4 == analyze_node(analyze_node(G2, node.parameters), node.body)
    IN [G4 EXCEPT !.in_function = G.in_function,
                  !.current_function_return_type = G.current_function_return_type]

analyze_function(G, node) ==
    LET func_name == node.name
        existing == lookup_symbol(G, G.current_scope, func_name)
        func_symbol == [create_symbol(func_name, "SYMBOL_FUNCTION")
                            EXCEPT !.type = create_function_type]
        G1 == AddToScope(G, G.current_scope, func_symbol)
        \* the scope of the body, with the function context set
        G2 == [G1 EXCEPT !.scopes = Append(@, create_symbol_table(G.current_scope)),
                         !.current_scope = Len(G1.scopes) + 1,
                         !.in_function = 1,
                         !.current_function_return_type = func_symbol.type.return_type]
        G3 == analyze_node(G2, node.parameters)
        G4 == analyze_node(G3, node.body)
    IN IF existing # NULL
       THEN add_semantic_error(G, "Function '%s' already declared", func_name)
       ELSE \* the context restored and the scope freed
            [G4 EXCEPT !.scopes = SubSeq(@, 1, Len(@) - 1),
                       !.current_scope = G.current_scope,
                       !.in_function = G.in_function,
                       !.current_function_return_type =
                           G.current_function_return_type]

analyze_variable_declaration(G, node) ==
    LET var_name == node.name
        existing == lookup_symbol_local(G, G.current_scope, var_name)
        G1 == analyze_node(G, node.value)
        init_type == IF node.value # NULL THEN get_expression_type(node.value)
                     ELSE NULL
        var_type == IF node.type_node # NULL THEN resolve_type(node.type_node)
                    ELSE init_type
        var_symbol == [create_symbol(var_name, "SYMBOL_VARIABLE")
                           EXCEPT !.type = var_type, !.is_const = node.is_const]
    IN IF existing # NULL
       THEN add_semantic_error(G, "Variable '%s' already declared in this scope",
                               var_name)
       ELSE IF var_type = NULL
       THEN add_semantic_error(G1, "Cannot infer type for variable '%s'", var_name)
       ELSE IF init_type # NULL /\ ~types_compatible(var_type, init_type)
       THEN add_semantic_error(G1, "Type mismatch in variable '%s' declaration",
                               var_name)
       ELSE AddToScope(G1, G1.current_scope, var_symbol)

analyze_binary_operation(G, node) ==
    LET G1 == analyze_node(analyze_node(G, node.left), node.right)
        left_type == get_expression_type(node.left)
        right_type == get_expression_type(node.right)
    IN IF left_type = NULL \/ right_type = NULL
       THEN add_semantic_error(G1, "Cannot determine operand types for binary operation",
                               NullStr)
       ELSE IF ~is_binary_operator_valid(node.operator, left_type, right_type)
       THEN add_semantic_error(G1, "Invalid binary operation between types", NullStr)
       ELSE G1

analyze_identifier(G, node) ==
    IF lookup_symbol(G, G.current_scope, node.name) = NULL
    THEN add_semantic_error(G, "Undefined identifier '%s'", node.name)
    ELSE G

analyze_return_statement(G, node) ==
    LET G1 == analyze_node(G, node.expression)
        return_type == IF node.expression # NULL
                       THEN get_expression_type(node.expression)
                       ELSE get_void_type
    IN IF G.in_function = 0
       THEN add_semantic_error(G, "Return statement outside function", NullStr)
       ELSE IF ~types_compatible(G.current_function_return_type, return_type)
       THEN add_semantic_error(G1, "Return type mismatch", NullStr)
       ELSE G1

analyze_node(G, node) ==
    IF node = NULL THEN G
    ELSE CASE node.type = "AST_PROGRAM" -> analyze_program(G, node)
           [] node.type = "AST_FUNCTION" -> analyze_function(G, node)
           [] node.type = "AST_VARIABLE" -> analyze_variable_declaration(G, node)
           [] node.type = "AST_BINARY_OP" -> analyze_binary_operation(G, node)
           [] node.type = "AST_RETURN" -> analyze_return_statement(G, node)
           [] node.type = "AST_BLOCK" -> analyze_block(G, node)
           [] node.type = "AST_IDENTIFIER" -> analyze_identifier(G, node)
           \* analyze_unary_operation, analyze_function_call,
           \* analyze_if_statement, analyze_for_statement,
           \* analyze_while_statement and analyze_match_statement are empty
           [] node.type \in {"AST_UNARY_OP", "AST_CALL", "AST_IF", "AST_FOR",
                             "AST_WHILE", "AST_MATCH"} -> G
           [] OTHER -> analyze_children(G, node.children, 1)

\* the analyzer before semantic_init's caller has handed it anything
SemIdle ==
    /\ g_analyzer = semantic_init
    /\ sroot = NULL
    /\ spos = 0
    /\ sstate = "idle"
    /\ sresult = 0

(***************************************************************************)
(* IR (src/src/ir/ir.h, ir.c).  ir.c defines the constructors of modules,  *)
(* functions, blocks, instructions and values.  ir.h declares              *)
(* ir_basic_block_add_instruction and the IRBuilder functions, and no file *)
(* defines them or the lowering of the AST: these follow the               *)
(* specification (IR Builder; error handling).                             *)
(*                                                                         *)
(* Linked lists are sequences; a function is named by its index in         *)
(* module.functions and a block by its index in function.blocks.           *)
(***************************************************************************)
\* an absent char* where text is a plain string
NoText == "(null)"

ir_module_create(name) ==
    [name |-> name, functions |-> <<>>, source_file |-> NoText,
     target_triple |-> NoText]

ir_function_create(name) ==
    [name |-> name, parameters |-> <<>>, blocks |-> <<>>, next_register_id |-> 1]

ir_basic_block_create(label) == [label |-> label, instructions |-> <<>>]

ir_instruction_create(opcode) ==
    [opcode |-> opcode, dest |-> NULL, src1 |-> NULL, src2 |-> NULL, src3 |-> NULL,
     line_number |-> 0, comment |-> NoText]

\* the constructor without its assignment of reg_id
ir_value_create_register_unset(reg_id) == [type |-> "IR_VALUE_REGISTER"]
ir_value_create_register(reg_id) == [type |-> "IR_VALUE_REGISTER", reg_id |-> reg_id]
ir_value_create_constant_int(int_val) ==
    [type |-> "IR_VALUE_CONSTANT", const_type |-> "IR_CONST_INT_VAL",
     int_val |-> int_val]
ir_value_create_constant_string(string_val) ==
    [type |-> "IR_VALUE_CONSTANT", const_type |-> "IR_CONST_STRING_VAL",
     string_val |-> string_val]
ir_value_create_label(label) == [type |-> "IR_VALUE_LABEL", label |-> label]
ir_value_create_global(name) == [type |-> "IR_VALUE_GLOBAL", global_name |-> name]

ir_basic_block_add_instruction(block, instruction) ==
    [block EXCEPT !.instructions = Append(@, instruction)]

ir_builder_create(module) ==
    [module |-> module, current_function |-> 0, current_block |-> 0,
     symbols |-> <<>>, fault |-> FALSE]

\* the control-transfer instructions
TerminatorOpcodes == {"IR_JUMP", "IR_BRANCH", "IR_RETURN"}

CurrentBlock(B) == B.module.functions[B.current_function].blocks[B.current_block]

\* the builder's test that a block has been finished
BlockTerminated(block) ==
    /\ Len(block.instructions) > 0
    /\ block.instructions[Len(block.instructions)].opcode \in TerminatorOpcodes

\* the instruction is appended whether or not the block is finished
EmitUnchecked(B, instruction) ==
    IF B.fault THEN B
    ELSE [B EXCEPT !.module.functions[B.current_function].blocks[B.current_block] =
                       ir_basic_block_add_instruction(@, instruction)]

\* an instruction goes to the end of the current block; a block that is
\* finished takes no more: that is an internal fault
Emit(B, instruction) ==
    IF B.fault THEN B
    ELSE IF BlockTerminated(CurrentBlock(B)) THEN [B EXCEPT !.fault = TRUE]
    ELSE [B EXCEPT !.module.functions[B.current_function].blocks[B.current_block] =
                       ir_basic_block_add_instruction(@, instruction)]

\* a new block at the end of the current function; its index is the new
\* number of blocks
AddBlock(B, name) ==
    [B EXCEPT !.module.functions[B.current_function].blocks =
                  Append(@, ir_basic_block_create(<<name, Len(@) + 1>>))]
LastBlock(B) == Len(B.module.functions[B.current_function].blocks)
BlockLabel(B, block) ==
    ir_value_create_label(B.module.functions[B.current_function].blocks[block].label)

\* control moves to another block: the block left must be finished
ir_builder_set_block(B, block) ==
    IF B.fault THEN B
    ELSE IF B.current_block # 0 /\ ~BlockTerminated(CurrentBlock(B))
    THEN [B EXCEPT !.fault = TRUE]
    ELSE [B EXCEPT !.current_block = block]

ir_builder_set_function(B, function) ==
    [B EXCEPT !.module.functions = Append(@, function),
              !.current_function = Len(B.module.functions) + 1,
              !.current_block = 0,
              !.symbols = <<>>]

\* a freshly allocated virtual register: [builder, value]
FreshRegister(B) ==
    [builder |-> [B EXCEPT !.module.functions[B.current_function].next_register_id = @ + 1],
     value |-> ir_value_create_register(
                   B.module.functions[B.current_function].next_register_id)]

ir_builder_get_symbol(B, name) ==
    IF \E i \in 1..Len(B.symbols) : B.symbols[i].name = name
    THEN B.symbols[CHOOSE i \in 1..Len(B.symbols) : B.symbols[i].name = name].value
    ELSE ir_value_create_global(name)

ir_builder_add_symbol(B, name, value) ==
    IF \E i \in 1..Len(B.symbols) : B.symbols[i].name = name
    THEN [B EXCEPT !.symbols[CHOOSE i \in 1..Len(B.symbols) : B.symbols[i].name = name]
                       .value = value]
    ELSE [B EXCEPT !.symbols = Append(@, [name |-> name, value |-> value])]

\* one instruction with a fresh destination register: [builder, value]
EmitValue(B, opcode, src1, src2) ==
    LET r == FreshRegister(B)
    IN [builder |-> Emit(r.builder,
                         [ir_instruction_create(opcode) EXCEPT
                              !.dest = r.value, !.src1 = src1, !.src2 = src2]),
        value |-> r.value]

ir_builder_load(B, ptr) == EmitValue(B, "IR_LOAD", ptr, NULL)

BinaryOpcode(operator) ==
    CASE operator = "TOKEN_PLUS" -> "IR_ADD"
      [] operator = "TOKEN_MINUS" -> "IR_SUB"
      [] operator = "TOKEN_MULTIPLY" -> "IR_MUL"
      [] operator = "TOKEN_DIVIDE" -> "IR_DIV"
      [] operator = "TOKEN_LT" -> "IR_LT"
      [] OTHER -> "IR_NOP"

ir_builder_return(B, value) ==
    Emit(B, [ir_instruction_create("IR_RETURN") EXCEPT !.src1 = value])

ir_builder_jump(B, block) ==
    Emit(B, [ir_instruction_create("IR_JUMP") EXCEPT !.src1 = BlockLabel(B, block)])

ir_builder_branch(B, condition, then_block, else_block) ==
    Emit(B, [ir_instruction_create("IR_BRANCH") EXCEPT
                 !.src1 = condition, !.src2 = BlockLabel(B, then_block),
                 !.src3 = BlockLabel(B, else_block)])

\* the number a literal's digits denote
RECURSIVE LiteralValue(_)
LiteralValue(text) ==
    IF Len(text) = 0 THEN 0
    ELSE 10 * LiteralValue(SubSeq(text, 1, Len(text) - 1))
         + (CHOOSE d \in 0..9 : ToString(d) = text[Len(text)])

\* Expression lowering: [builder, value].  A literal is a constant value,
\* an identifier a load of the variable's current value, a binary
\* expression the left operand, the right operand, then one instruction
\* into a fresh register.
RECURSIVE LowerExpression(_, _)
LowerExpression(B, expr) ==
    IF expr = NULL THEN [builder |-> B, value |-> NULL]
    ELSE CASE expr.type = "AST_NUMBER" ->
                [builder |-> B, value |-> ir_value_create_constant_int(LiteralValue(expr.value))]
           [] expr.type = "AST_IDENTIFIER" ->
                ir_builder_load(B, ir_builder_get_symbol(B, expr.name))
           [] expr.type = "AST_BINARY_OP" ->
                LET l == LowerExpression(B, expr.left)
                    r == LowerExpression(l.builder, expr.right)
                IN EmitValue(r.builder, BinaryOpcode(expr.operator), l.value, r.value)
           [] OTHER -> [builder |-> B, value |-> NULL]

\* the jump that ends a block which lowering has left open
JumpUnlessTerminated(B, block) ==
    IF B.fault \/ BlockTerminated(CurrentBlock(B)) THEN B
    ELSE ir_builder_jump(B, block)

RECURSIVE LowerStatement(_, _)
RECURSIVE LowerStatements(_, _, _)

LowerStatements(B, stmts, i) ==
    IF i > Len(stmts) THEN B
    ELSE LowerStatements(LowerStatement(B, stmts[i]), stmts, i + 1)

\* if: the condition, a branch to the then block or to the
\* else/continuation block
LowerIf(B, node) ==
    LET c == LowerExpression(B, node.condition)
        B1 == AddBlock(c.builder, "then")
        B2 == AddBlock(B1, "else")
        B3 == ir_builder_branch(B2, c.value, LastBlock(B1), LastBlock(B2))
        B4 == LowerStatements(ir_builder_set_block(B3, LastBlock(B1)),
                              node.then_block.children, 1)
        B5 == ir_builder_set_block(JumpUnlessTerminated(B4, LastBlock(B2)),
                                   LastBlock(B2))
    IN IF node.else_block = NULL THEN B5
       ELSE LowerStatements(B5, node.else_block.children, 1)

\* while and for: header, body and end blocks
LowerLoop(B, condition, body) ==
    LET B1 == AddBlock(B, "header")
        B2 == AddBlock(B1, "body")
        B3 == AddBlock(B2, "end")
        B4 == ir_builder_set_block(ir_builder_jump(B3, LastBlock(B1)), LastBlock(B1))
        c == LowerExpression(B4, condition)
        B5 == ir_builder_branch(c.builder, c.value, LastBlock(B2), LastBlock(B3))
        B6 == LowerStatements(ir_builder_set_block(B5, LastBlock(B2)), body.children, 1)
    IN ir_builder_set_block(JumpUnlessTerminated(B6, LastBlock(B1)), LastBlock(B3))

LowerStatement(B, stmt) ==
    IF B.fault THEN B
    ELSE CASE stmt.type = "AST_VARIABLE" ->
                LET e == LowerExpression(B, stmt.value)
                IN ir_builder_add_symbol(e.builder, stmt.name, e.value)
           [] stmt.type = "AST_RETURN" ->
                LET e == LowerExpression(B, stmt.expression)
                IN ir_builder_return(e.builder, e.value)
           [] stmt.type = "AST_IF" -> LowerIf(B, stmt)
           [] stmt.type = "AST_WHILE" -> LowerLoop(B, stmt.condition, stmt.body)
           [] stmt.type = "AST_FOR" -> LowerLoop(B, stmt.iterable, stmt.body)
           [] OTHER -> B

\* the builder before any function is lowered
IrIdle ==
    /\ ir_builder = ir_builder_create(ir_module_create(<<"m">>))
    /\ irFunc = NULL
    /\ irPos = 0
    /\ irState = "idle"

(***************************************************************************)
(* The textual IR dump (ir.c: ir_module_print, ir_instruction_print,       *)
(* ir_value_print).  A dump is a sequence of lines and a line a sequence   *)
(* of the pieces of text the fprintf calls write; names are plain strings. *)
(***************************************************************************)
ir_opcode_to_string(opcode) ==
    CASE opcode = "IR_ADD" -> "add" [] opcode = "IR_SUB" -> "sub"
      [] opcode = "IR_MUL" -> "mul" [] opcode = "IR_DIV" -> "div"
      [] opcode = "IR_MOD" -> "mod" [] opcode = "IR_EQ" -> "eq"
      [] opcode = "IR_NE" -> "ne" [] opcode = "IR_LT" -> "lt"
      [] opcode = "IR_LE" -> "le" [] opcode = "IR_GT" -> "gt"
      [] opcode = "IR_GE" -> "ge" [] opcode = "IR_AND" -> "and"
      [] opcode = "IR_OR" -> "or" [] opcode = "IR_NOT" -> "not"
      [] opcode = "IR_LOAD" -> "load" [] opcode = "IR_STORE" -> "store"
      [] opcode = "IR_ALLOCA" -> "alloca" [] opcode = "IR_JUMP" -> "jump"
      [] opcode = "IR_BRANCH" -> "branch" [] opcode = "IR_CALL" -> "call"
      [] opcode = "IR_RETURN" -> "return" [] opcode = "IR_FUNC_BEGIN" -> "func_begin"
      [] opcode = "IR_FUNC_END" -> "func_end" [] opcode = "IR_CONST_INT" -> "const_int"
      [] opcode = "IR_CONST_FLOAT" -> "const_float" [] opcode = "IR_CONST_STRING" -> "const_string"
      [] opcode = "IR_VAR_DECL" -> "var_decl" [] opcode = "IR_VAR_ASSIGN" -> "var_assign"
      [] opcode = "IR_PRINT" -> "print" [] opcode = "IR_READ" -> "read"
      [] opcode = "IR_LOOP_BEGIN" -> "loop_begin" [] opcode = "IR_LOOP_END" -> "loop_end"
      [] opcode = "IR_LOOP_CONTINUE" -> "loop_continue" [] opcode = "IR_LOOP_BREAK" -> "loop_break"
      [] opcode = "IR_ASYNC_CALL" -> "async_call" [] opcode = "IR_AWAIT" -> "await"
      [] opcode = "IR_SPAWN" -> "spawn" [] opcode = "IR_CAST" -> "cast"
      [] opcode = "IR_TYPEOF" -> "typeof" [] opcode = "IR_NOP" -> "nop"
      [] opcode = "IR_LABEL" -> "label" [] opcode = "IR_PHI" -> "phi"
      [] OTHER -> "unknown"

\* an IRValue as malloc returns it: every field holds what the memory held
malloc_IRValue(garbage) ==
    [type |-> garbage, reg_id |-> garbage, const_type |-> garbage,
     int_val |-> garbage, float_val |-> garbage, string_val |-> garbage,
     label |-> garbage,
     global_name |-> garbage]

\* the fields a constructor assigns, in the memory it was given
Constructed(memory, assigned) ==
    [field \in DOMAIN memory |->
        IF field \in DOMAIN assigned THEN assigned[field] ELSE memory[field]]

ir_value_print(value) ==
    IF value = NULL THEN <<>>
    ELSE CASE value.type = "IR_VALUE_REGISTER" -> <<"%", ToString(value.reg_id)>>
           [] value.type = "IR_VALUE_CONSTANT" ->
                (CASE value.const_type = "IR_CONST_INT_VAL" -> <<ToString(value.int_val)>>
                   [] value.const_type = "IR_CONST_FLOAT_VAL" ->
                          <<ToString(value.float_val), ".000000">>
                   [] value.const_type = "IR_CONST_STRING_VAL" ->
                          <<"\"", value.string_val, "\"">>
                   [] OTHER -> <<>>)
           [] value.type = "IR_VALUE_LABEL" -> <<value.label>>
           [] value.type = "IR_VALUE_GLOBAL" -> <<"@", value.global_name>>
           [] OTHER -> <<>>

ir_instruction_print(instruction) ==
    <<ir_opcode_to_string(instruction.opcode)>>
    \o (IF instruction.dest # NULL
        THEN <<" ">> \o ir_value_print(instruction.dest) ELSE <<>>)
    \o (IF instruction.src1 # NULL
        THEN <<", ">> \o ir_value_print(instruction.src1) ELSE <<>>)
    \o (IF instruction.src2 # NULL
        THEN <<", ">> \o ir_value_print(instruction.src2) ELSE <<>>)
    \o (IF instruction.comment # NoText
        THEN <<" ; ", instruction.comment>> ELSE <<>>)

\* the lines of one block: its label, then one line per instruction
BlockLines(block) ==
    (IF block.label # NoText THEN <<<<block.label, ":">>>> ELSE <<>>)
    \o [i \in 1..Len(block.instructions) |->
           <<"    ">> \o ir_instruction_print(block.instructions[i])]

RECURSIVE Concat(_)
Concat(seqs) == IF Len(seqs) = 0 THEN <<>> ELSE Head(seqs) \o Concat(Tail(seqs))

FunctionLines(function) ==
    <<<<"func_begin @", function.name>>>>
    \o Concat([b \in 1..Len(function.blocks) |-> BlockLines(function.blocks[b])])
    \o <<<<"func_end">>, <<>>>>

ir_module_print(module) ==
    <<<<"; GPLANG IR Module: ", module.name>>>>
    \o (IF module.source_file # NoText
        THEN <<<<"; Source: ", module.source_file>>>> ELSE <<>>)
    \o (IF module.target_triple # NoText
        THEN <<<<"; Target: ", module.target_triple>>>> ELSE <<>>)
    \o <<<<>>>>
    \o Concat([f \in 1..Len(module.functions) |-> FunctionLines(module.functions[f])])

\* nothing has been written
NoDump == <<<<"(nothing)">>>>

\* no module is being built by hand
PrIdle ==
    /\ prModule = ir_module_create("idle")
    /\ prTwin = ir_module_create("idle")
    /\ prDump = NoDump
    /\ prTwinDump = NoDump
(***************************************************************************)
(* The memory-safety tracker (src/src/safety/memory_safety.c).  A pointer  *)
(* is a positive number, the absent pointer 0; a region is named by its    *)
(* index in g_safety_context.regions.                                      *)
(***************************************************************************)
\* safety_init: the capacity of the region table
max_regions == 10000

safety_init ==
    [regions |-> <<>>, region_count |-> 0, max_regions |-> max_regions,
     next_lifetime_id |-> 1, next_owner_id |-> 1]

\* the index of the first region that holds ptr, 0 when there is none
find_region(C, ptr) ==
    LET found == {i \in 1..C.region_count : C.regions[i].ptr = ptr}
    IN IF found = {} THEN 0 ELSE CHOOSE i \in found : \A j \in found : i <= j

\* [context, ptr]: ptr is the block malloc returned
safe_alloc(C, ptr, size, owner_id) ==
    IF C.region_count >= C.max_regions THEN [context |-> C, ptr |-> 0]
    ELSE [context |->
              [C EXCEPT !.regions =
                            Append(@, [ptr |-> ptr, size |-> size,
                                       owner_id |-> owner_id,
                                       lifetime_id |-> C.next_lifetime_id,
                                       is_valid |-> 1, is_borrowed |-> 0,
                                       borrow_count |-> 0,
                                       is_mutable_borrowed |-> 0]),
                        !.region_count = @ + 1,
                        !.next_lifetime_id = @ + 1],
          ptr |-> ptr]

\* [context, result]
safe_free(C, ptr, owner_id) ==
    LET r == find_region(C, ptr)
    IN IF r = 0 THEN [context |-> C, result |-> -1]
       ELSE IF C.regions[r].is_valid = 0 THEN [context |-> C, result |-> -1]
       ELSE IF C.regions[r].owner_id # owner_id THEN [context |-> C, result |-> -1]
       ELSE IF C.regions[r].is_borrowed # 0 THEN [context |-> C, result |-> -1]
       ELSE [context |-> [C EXCEPT !.regions[r].is_valid = 0, !.regions[r].ptr = 0],
             result |-> 0]

InvalidHandle ==
    [ptr |-> 0, region |-> 0, borrower_id |-> 0, is_valid |-> 0, is_mutable |-> 0]

\* [context, handle]
safe_borrow(C, ptr, borrower_id) ==
    LET r == find_region(C, ptr)
    IN IF r = 0 THEN [context |-> C, handle |-> InvalidHandle]
       ELSE IF C.regions[r].is_valid = 0 THEN [context |-> C, handle |-> InvalidHandle]
       ELSE IF C.regions[r].is_mutable_borrowed # 0
       THEN [context |-> C, handle |-> InvalidHandle]
       ELSE [context |-> [C EXCEPT !.regions[r].is_borrowed = 1,
                                   !.regions[r].borrow_count = @ + 1],
             handle |-> [ptr |-> ptr, region |-> r, borrower_id |-> borrower_id,
                         is_valid |-> 1, is_mutable |-> 0]]

\* [context, handle]
safe_borrow_mut(C, ptr, borrower_id) ==
    LET r == find_region(C, ptr)
    IN IF r = 0 THEN [context |-> C, handle |-> InvalidHandle]
       ELSE IF C.regions[r].is_valid = 0 THEN [context |-> C, handle |-> InvalidHandle]
       ELSE IF C.regions[r].is_borrowed # 0
       THEN [context |-> C, handle |-> InvalidHandle]
       ELSE [context |-> [C EXCEPT !.regions[r].is_borrowed = 1,
                                   !.regions[r].is_mutable_borrowed = 1,
                                   !.regions[r].borrow_count = 1],
             handle |-> [ptr |-> ptr, region |-> r, borrower_id |-> borrower_id,
                         is_valid |-> 1, is_mutable |-> 1]]

\* [context, handle, result]
safe_release_borrow(C, handle) ==
    IF handle.is_valid = 0 THEN [context |-> C, handle |-> handle, result |-> -1]
    ELSE LET r == handle.region
             released == [handle EXCEPT !.is_valid = 0, !.ptr = 0, !.region = 0]
         IN IF handle.is_mutable # 0
            THEN [context |-> [C EXCEPT !.regions[r].is_mutable_borrowed = 0,
                                        !.regions[r].borrow_count = 0],
                  handle |-> released, result |-> 0]
            ELSE LET count == C.regions[r].borrow_count - 1
                 IN [context |->
                         [C EXCEPT !.regions[r].borrow_count = count,
                                   !.regions[r].is_borrowed =
                                       IF count = 0 THEN 0 ELSE @],
                     handle |-> released, result |-> 0]

\* [context, result]
safe_move(C, ptr, old_owner, new_owner) ==
    LET r == find_region(C, ptr)
    IN IF r = 0 THEN [context |-> C, result |-> -1]
       ELSE IF C.regions[r].is_valid = 0 THEN [context |-> C, result |-> -1]
       ELSE IF C.regions[r].owner_id # old_owner THEN [context |-> C, result |-> -1]
       ELSE IF C.regions[r].is_borrowed # 0 THEN [context |-> C, result |-> -1]
       ELSE [context |-> [C EXCEPT !.regions[r].owner_id = new_owner],
             result |-> 0]

\* the tracker after safety_init, no caller holding a handle
MsIdle ==
    /\ g_safety_context = safety_init
    /\ handles = <<>>

(***************************************************************************)
(* The driver: src/src/main.c                                              *)
(*                                                                         *)
(* A line of output is the sequence of its blank-separated words, so an    *)
(* empty line is <<>>.  The messages of main.c are written without their   *)
(* pictographs.  The command line is given as getopt_long sees it: the     *)
(* options in order, each with its argument, and the operands that follow. *)
(***************************************************************************)
\* the most options on a command line
MaxArgs == 2

\* codegen.c: the name of a target
target_arch_to_string(target) ==
    CASE target = "TARGET_X86_64" -> "x86_64"
      [] target = "TARGET_ARM64" -> "arm64"
      [] target = "TARGET_RISCV64" -> "riscv64"
      [] OTHER -> "unknown"

\* lexer.c: the printed names of the token types
token_type_names ==
    [ TOKEN_NUMBER |-> "NUMBER", TOKEN_STRING |-> "STRING",
      TOKEN_IDENTIFIER |-> "IDENTIFIER", TOKEN_FUNC |-> "FUNC",
      TOKEN_FUN |-> "FUN", TOKEN_FU |-> "FU", TOKEN_VAR |-> "VAR",
      TOKEN_CONST |-> "CONST", TOKEN_IF |-> "IF", TOKEN_ELIF |-> "ELIF",
      TOKEN_ELSE |-> "ELSE", TOKEN_WHILE |-> "WHILE", TOKEN_FOR |-> "FOR",
      TOKEN_IN |-> "IN", TOKEN_RETURN |-> "RETURN", TOKEN_AND |-> "AND",
      TOKEN_OR |-> "OR", TOKEN_NOT |-> "NOT", TOKEN_TRUE |-> "TRUE",
      TOKEN_FALSE |-> "FALSE", TOKEN_IMPORT |-> "IMPORT",
      TOKEN_PARALLEL |-> "PARALLEL", TOKEN_UNSAFE |-> "UNSAFE",
      TOKEN_ASYNC |-> "ASYNC", TOKEN_AWAIT |-> "AWAIT",
      TOKEN_SPAWN |-> "SPAWN", TOKEN_MATCH |-> "MATCH",
      TOKEN_SOME |-> "SOME", TOKEN_NONE |-> "NONE", TOKEN_OK |-> "OK",
      TOKEN_ERR |-> "ERR", TOKEN_OPTION |-> "OPTION",
      TOKEN_RESULT |-> "RESULT", TOKEN_TEST |-> "TEST",
      TOKEN_BENCH |-> "BENCH", TOKEN_INT |-> "INT", TOKEN_FLOAT |-> "FLOAT",
      TOKEN_STR |-> "STR", TOKEN_STRING_TYPE |-> "STRING_TYPE",
      TOKEN_BOOL |-> "BOOL", TOKEN_LIST |-> "LIST", TOKEN_DICT |-> "DICT",
      TOKEN_SET |-> "SET", TOKEN_TUPLE |-> "TUPLE",
      TOKEN_FUTURE |-> "FUTURE", TOKEN_CHANNEL |-> "CHANNEL",
      TOKEN_TASK |-> "TASK", TOKEN_VEC2 |-> "VEC2", TOKEN_VEC3 |-> "VEC3",
      TOKEN_VEC4 |-> "VEC4", TOKEN_MATRIX4 |-> "MATRIX4",
      TOKEN_COLOR |-> "COLOR", TOKEN_TIME |-> "TIME", TOKEN_REF |-> "REF",
      TOKEN_MUT |-> "MUT", TOKEN_OS |-> "OS", TOKEN_SYS |-> "SYS",
      TOKEN_ENV |-> "ENV", TOKEN_PROCESS |-> "PROCESS", TOKEN_STD |-> "STD",
      TOKEN_PLUS |-> "PLUS", TOKEN_MINUS |-> "MINUS",
      TOKEN_MULTIPLY |-> "MULTIPLY", TOKEN_DIVIDE |-> "DIVIDE",
      TOKEN_MODULO |-> "MODULO", TOKEN_POWER |-> "POWER",
      TOKEN_ASSIGN |-> "ASSIGN", TOKEN_EQ |-> "EQ", TOKEN_NE |-> "NE",
      TOKEN_LT |-> "LT", TOKEN_LE |-> "LE", TOKEN_GT |-> "GT",
      TOKEN_GE |-> "GE", TOKEN_ARROW |-> "ARROW",
      TOKEN_LEFT_PAREN |-> "LEFT_PAREN", TOKEN_RIGHT_PAREN |-> "RIGHT_PAREN",
      TOKEN_LEFT_BRACKET |-> "LEFT_BRACKET",
      TOKEN_RIGHT_BRACKET |-> "RIGHT_BRACKET",
      TOKEN_LEFT_BRACE |-> "LEFT_BRACE", TOKEN_RIGHT_BRACE |-> "RIGHT_BRACE",
      TOKEN_COMMA |-> "COMMA", TOKEN_DOT |-> "DOT", TOKEN_COLON |-> "COLON",
      TOKEN_SEMICOLON |-> "SEMICOLON", TOKEN_NEWLINE |-> "NEWLINE",
      TOKEN_INDENT |-> "INDENT", TOKEN_DEDENT |-> "DEDENT",
      TOKEN_COMMENT |-> "COMMENT", TOKEN_EOF |-> "EOF",
      TOKEN_ERROR |-> "ERROR" ]

token_type_to_string(type) ==
    IF type \in DOMAIN token_type_names THEN token_type_names[type] ELSE "UNKNOWN"

\* frontend_mode: the IR text it writes, whatever the source holds
PlaceholderIR(opts) ==
    << <<";", "GPLANG", "IR", "-", "Generated", "from">> \o <<opts.input_file>>,
       <<";", "Target:">> \o <<target_arch_to_string(opts.target)>>,
       <<>>,
       <<"func_begin", "@main">>,
       <<";", "Placeholder", "IR", "for", "count_1m.gp">>,
       <<"const_int", "1000000">>,
       <<"store", "%1,", "@count">>,
       <<"call", "@Time.now">>,
       <<"store", "%2,", "@start_time">>,
       <<>>,
       <<"loop_begin:">>,
       <<"load", "%3,", "@i">>,
       <<"load", "%4,", "@count">>,
       <<"lt", "%5,", "%3,", "%4">>,
       <<"branch", "%5,", "loop_body,", "loop_end">>,
       <<>>,
       <<"loop_body:">>,
       <<";", "Loop", "body", "implementation">>,
       <<"jump", "loop_begin">>,
       <<>>,
       <<"loop_end:">>,
       <<"call", "@Time.now">>,
       <<"store", "%6,", "@end_time">>,
       <<"const_int", "0">>,
       <<"return", "%7">>,
       <<"func_end">> >>

\* backend_mode: the assembly it writes for x86_64
PlaceholderX86 ==
    << <<"#", "GPLANG", "Generated", "x86_64", "Assembly">>,
       <<".section", ".text">>,
       <<".global", "main">>,
       <<>>,
       <<"main:">>,
       <<"pushq", "%rbp">>,
       <<"movq", "%rsp,", "%rbp">>,
       <<>>,
       <<"#", "Count", "loop", "(simplified)">>,
       <<"movq", "$1,", "%rcx", "#", "i", "=", "1">>,
       <<"movq", "$1000000,", "%rdx", "#", "count", "=", "1000000">>,
       <<>>,
       <<"loop:">>,
       <<"cmpq", "%rdx,", "%rcx">>,
       <<"jge", "loop_end">>,
       <<"incq", "%rcx">>,
       <<"jmp", "loop">>,
       <<>>,
       <<"loop_end:">>,
       <<"movq", "$0,", "%rax", "#", "return", "0">>,
       <<"popq", "%rbp">>,
       <<"ret">> >>

\* backend_mode: the assembly it writes for arm64
PlaceholderARM64 ==
    << <<"//", "GPLANG", "Generated", "ARM64", "Assembly">>,
       <<".section", ".text">>,
       <<".global", "main">>,
       <<>>,
       <<"main:">>,
       <<"stp", "x29,", "x30,", "[sp,", "#-16]!">>,
       <<"mov", "x29,", "sp">>,
       <<>>,
       <<"//", "Count", "loop", "(simplified)">>,
       <<"mov", "x0,", "#1", "//", "i", "=", "1">>,
       <<"mov", "x1,", "#1000000", "//", "count", "=", "1000000">>,
       <<>>,
       <<"loop:">>,
       <<"cmp", "x0,", "x1">>,
       <<"bge", "loop_end">>,
       <<"add", "x0,", "x0,", "#1">>,
       <<"b", "loop">>,
       <<>>,
       <<"loop_end:">>,
       <<"mov", "x0,", "#0", "//", "return", "0">>,
       <<"ldp", "x29,", "x30,", "[sp],", "#16">>,
       <<"ret">> >>

\* main.c: the usage text
print_usage(program_name) ==
    << <<"GPLANG", "Compiler", "-", "Modern", "compilation", "pipeline:", ".gp", "->", "IR", "->", "Assembly", "->", ".o", "->", ".bin">>,
       <<>>,
       <<"Usage:", program_name, "[OPTIONS]", "<input_file>">>,
       <<>>,
       <<"Compilation", "Modes:">>,
       <<"--frontend", "Frontend", "only:", ".gp", "->", "IR">>,
       <<"--backend", "Backend", "only:", "IR", "->", "Assembly">>,
       <<"--tokenize", "Tokenize", "only:", ".gp", "->", "Tokens">>,
       <<"(default)", "Full", "compilation:", ".gp", "->", "Assembly">>,
       <<>>,
       <<"Options:">>,
       <<"-o,", "--output", "FILE", "Output", "file", "(default:", "stdout)">>,
       <<"--target", "ARCH", "Target", "architecture", "(x86_64,", "arm64,", "riscv64)">>,
       <<"-O,", "--optimize", "Enable", "optimizations">>,
       <<"-v,", "--verbose", "Verbose", "output">>,
       <<"-h,", "--help", "Show", "this", "help">>,
       <<>>,
       <<"Examples:">>,
       <<program_name, "examples/basic/count_1m.gp">>,
       <<program_name, "--frontend", "count_1m.gp", "-o", "count_1m.ir">>,
       <<program_name, "--backend", "count_1m.ir", "--target", "x86_64", "-o", "count_1m.s">>,
       <<program_name, "--target", "arm64", "-O", "count_1m.gp", "-o", "count_1m.s">>,
       <<>>,
       <<"Compilation", "Pipeline:">>,
       <<"1.", "Frontend:", ".gp", "->", "IR", "(Intermediate", "Representation)">>,
       <<"2.", "Optimization:", "IR", "->", "Optimized", "IR">>,
       <<"3.", "Backend:", "IR", "->", "Target", "Assembly", "(x86_64/ARM64/RISC-V)">>,
       <<"4.", "Assembly:", ".s", "->", ".o", "(using", "system", "assembler)">>,
       <<"5.", "Linking:", ".o", "->", ".bin", "(using", "system", "linker)">> >>

\* the value of a char* that is NULL (a file name is a string)
NoFile == "(null)"

\* main.c: the options before any argument is read
DefaultOptions ==
    [mode |-> "MODE_FULL_COMPILE", input_file |-> NoFile, output_file |-> NoFile,
     target |-> "TARGET_X86_64", verbose |-> FALSE, optimize |-> FALSE]

\* main.c: the getopt_long loop of parse_arguments from option i on; error is
\* the line written to stderr when the loop ends in exit(1)
RECURSIVE ParseOptions(_, _, _)
ParseOptions(o, opts, i) ==
    IF i > Len(opts) THEN [options |-> o, error |-> <<>>]
    ELSE LET c == opts[i].c
             optarg == opts[i].optarg
         IN CASE c = "f" ->
                   ParseOptions([o EXCEPT !.mode = "MODE_FRONTEND_ONLY"], opts, i + 1)
              [] c = "b" ->
                   ParseOptions([o EXCEPT !.mode = "MODE_BACKEND_ONLY"], opts, i + 1)
              [] c = "t" ->
                   ParseOptions([o EXCEPT !.mode = "MODE_TOKENIZE_ONLY"], opts, i + 1)
              [] c = "o" ->
                   ParseOptions([o EXCEPT !.output_file = optarg], opts, i + 1)
              [] c = "T" ->
                   IF optarg = "x86_64"
                   THEN ParseOptions([o EXCEPT !.target = "TARGET_X86_64"], opts, i + 1)
                   ELSE IF optarg = "arm64"
                   THEN ParseOptions([o EXCEPT !.target = "TARGET_ARM64"], opts, i + 1)
                   ELSE IF optarg = "riscv64"
                   THEN ParseOptions([o EXCEPT !.target = "TARGET_RISCV64"], opts, i + 1)
                   ELSE [options |-> o,
                         error |-> <<"Error:", "Unknown", "target", "architecture",
                                     optarg>>]
              [] c = "O" -> ParseOptions([o EXCEPT !.optimize = TRUE], opts, i + 1)
              [] c = "v" -> ParseOptions([o EXCEPT !.verbose = TRUE], opts, i + 1)
              [] c = "h" -> ParseOptions([o EXCEPT !.mode = "MODE_HELP"], opts, i + 1)
              [] OTHER -> [options |-> o, error |-> <<"Error:", "Unknown", "option">>]

\* main.c: parse_arguments; the first operand is the input file
parse_arguments(av) ==
    LET r == ParseOptions(DefaultOptions, av.opts, 1)
    IN IF r.error # <<>> \/ Len(av.operands) = 0 THEN r
       ELSE [r EXCEPT !.options.input_file = av.operands[1]]

\* the files that exist: the name of a file and the text it holds
AddSource ==
    << "f", "u", "n", "c", " ", "a", "d", "d", "(", "a", ":", " ", "i",
       "3", "2", ",", " ", "b", ":", " ", "i", "3", "2", ")", " ", "-",
       ">", " ", "i", "3", "2", ":", " ", "r", "e", "t", "u", "r", "n",
       " ", "a", " ", "+", " ", "b" >>

CountSource == <<"v", "a", "r", " ", "i", " ", "=", " ", "1", "\n">>

SourceFiles == ("add.gp" :> AddSource) @@ ("count.gp" :> CountSource)

\* main.c: read_file, NullStr when fopen fails
read_file(filename) ==
    IF filename \in DOMAIN SourceFiles THEN SourceFiles[filename] ELSE NullStr

\* main.c: the loop of tokenize_mode; a line holds what the format prints: the
\* name of the type, the value ("" for none), the line and the column
RECURSIVE TokenizeLoop(_, _)
TokenizeLoop(L, lines) ==
    LET r == lexer_next_token(L)
        token == r.token
    IN IF token.type = "TOKEN_EOF" THEN lines
       ELSE TokenizeLoop(r.lexer,
                Append(lines, <<token_type_to_string(token.type),
                                IF token.value = NullStr THEN <<>> ELSE token.value,
                                token.line, token.column>>))

\* fprintf(output, ...): output is the file of -o when there is one, else stdout
WriteOutput(o, file, out, lines) ==
    IF o.output_file # NoFile
    THEN [out_file |-> file \o lines, std_out |-> out]
    ELSE [out_file |-> file, std_out |-> out \o lines]

\* printf(...) under if (options->verbose)
Verbose(o, line) == IF o.verbose THEN <<line>> ELSE <<>>

\* the driver before main() is entered
DrvIdle ==
    /\ argv = [opts |-> <<>>, operands |-> <<>>]
    /\ options = DefaultOptions
    /\ out_file = <<>>
    /\ std_out = <<>>
    /\ std_err = <<>>
    /\ mainPc = "idle"
    /\ mainLine = 0
    /\ mainResult = -1
(***************************************************************************)
(* The components are run one at a time: while one runs the others rest.   *)
(***************************************************************************)
\* the lexer while another component runs
LexIdle ==
    /\ lexInput = <<>>
    /\ lexer = lexer_create(<<>>)
    /\ lexToks = <<>>
    /\ lexPass = 0
    /\ lexFirst = <<>>

\* no second parse() run exists
NoTask ==
    [pinput |-> <<>>, pstack |-> <<>>, pret |-> NULL, pstate |-> "none",
     presult |-> NULL, psteps |-> 0]
ConcIdle == parked = NoTask

NotLexIdle == ParIdle /\ SemIdle /\ IrIdle /\ DrvIdle /\ ConcIdle /\ PrIdle /\ MsIdle
NotParIdle == LexIdle /\ SemIdle /\ IrIdle /\ DrvIdle /\ ConcIdle /\ PrIdle /\ MsIdle
NotSemIdle == LexIdle /\ ParIdle /\ IrIdle /\ DrvIdle /\ ConcIdle /\ PrIdle /\ MsIdle
NotIrIdle == LexIdle /\ ParIdle /\ SemIdle /\ DrvIdle /\ ConcIdle /\ PrIdle /\ MsIdle
NotDrvIdle == LexIdle /\ ParIdle /\ SemIdle /\ IrIdle /\ ConcIdle /\ PrIdle /\ MsIdle
NotPrIdle == LexIdle /\ ParIdle /\ SemIdle /\ IrIdle /\ DrvIdle /\ ConcIdle /\ MsIdle
NotMsIdle == LexIdle /\ ParIdle /\ SemIdle /\ IrIdle /\ DrvIdle /\ ConcIdle /\ PrIdle
\* everything but the parser and the analyzer
FrontEndOnlyIdle == LexIdle /\ IrIdle /\ DrvIdle /\ ConcIdle /\ PrIdle /\ MsIdle
\* everything but the parser and its parked run
ParserOnlyIdle == LexIdle /\ SemIdle /\ IrIdle /\ DrvIdle /\ PrIdle /\ MsIdle
(***************************************************************************)
(* Lexer runs: a text is scanned to its end by repeated lexer_next_token   *)
(* calls (the loop of tokenize_mode in main.c); the lexemes of the tokens  *)
(* are then joined with single spaces and scanned again.                   *)
(***************************************************************************)
\* the characters bounded source texts are drawn from
Alphabet == {"a", "1", ".", "=", "\"", "#", " ", "\n", "@", "\\"}

RECURSIVE TextsUpTo(_)
TextsUpTo(n) ==
    IF n = 0 THEN {<<>>}
    ELSE LET shorter == TextsUpTo(n - 1)
         IN shorter \cup
            {Append(s, c) : s \in {t \in shorter : Len(t) = n - 1}, c \in Alphabet}

BoundedSources == TextsUpTo(MaxLen)

\* one well-formed token each, with the kind the token has by lexer.h and
\* tests/test_lexer.c (test_keywords, test_operators)
TokenTexts ==
    <<
       [text |-> <<"f", "u", "n", "c">>, kind |-> "TOKEN_FUNC"],
       [text |-> <<"i", "f">>, kind |-> "TOKEN_IF"],
       [text |-> <<"e", "l", "s", "e">>, kind |-> "TOKEN_ELSE"],
       [text |-> <<"e", "l", "i", "f">>, kind |-> "TOKEN_ELIF"],
       [text |-> <<"w", "h", "i", "l", "e">>, kind |-> "TOKEN_WHILE"],
       [text |-> <<"f", "o", "r">>, kind |-> "TOKEN_FOR"],
       [text |-> <<"p", "a", "r", "a", "l", "l", "e", "l">>, kind |-> "TOKEN_PARALLEL"],
       [text |-> <<"m", "a", "t", "c", "h">>, kind |-> "TOKEN_MATCH"],
       [text |-> <<"v", "a", "r">>, kind |-> "TOKEN_VAR"],
       [text |-> <<"c", "o", "n", "s", "t">>, kind |-> "TOKEN_CONST"],
       [text |-> <<"i", "m", "p", "o", "r", "t">>, kind |-> "TOKEN_IMPORT"],
       [text |-> <<"+">>, kind |-> "TOKEN_PLUS"],
       [text |-> <<"-">>, kind |-> "TOKEN_MINUS"],
       [text |-> <<"*">>, kind |-> "TOKEN_MULTIPLY"],
       [text |-> <<"/">>, kind |-> "TOKEN_DIVIDE"],
       [text |-> <<"%">>, kind |-> "TOKEN_MODULO"],
       [text |-> <<"=", "=">>, kind |-> "TOKEN_EQ"],
       [text |-> <<"!", "=">>, kind |-> "TOKEN_NE"],
       [text |-> <<"<">>, kind |-> "TOKEN_LT"],
       [text |-> <<"<", "=">>, kind |-> "TOKEN_LE"],
       [text |-> <<">">>, kind |-> "TOKEN_GT"],
       [text |-> <<">", "=">>, kind |-> "TOKEN_GE"],
       [text |-> <<"&", "&">>, kind |-> "TOKEN_AND"],
       [text |-> <<"|", "|">>, kind |-> "TOKEN_OR"],
       [text |-> <<"(">>, kind |-> "TOKEN_LEFT_PAREN"],
       [text |-> <<")">>, kind |-> "TOKEN_RIGHT_PAREN"],
       [text |-> <<"[">>, kind |-> "TOKEN_LEFT_BRACKET"],
       [text |-> <<"]">>, kind |-> "TOKEN_RIGHT_BRACKET"],
       [text |-> <<"{">>, kind |-> "TOKEN_LEFT_BRACE"],
       [text |-> <<"}">>, kind |-> "TOKEN_RIGHT_BRACE"],
       [text |-> <<",">>, kind |-> "TOKEN_COMMA"],
       [text |-> <<".">>, kind |-> "TOKEN_DOT"],
       [text |-> <<":">>, kind |-> "TOKEN_COLON"],
       [text |-> <<";">>, kind |-> "TOKEN_SEMICOLON"],
       [text |-> <<"4", "2">>, kind |-> "TOKEN_NUMBER"],
       [text |-> <<"3", ".", "1", "4">>, kind |-> "TOKEN_NUMBER"],
       [text |-> <<"\"", "h", "i", "\"">>, kind |-> "TOKEN_STRING"],
       [text |-> <<"x", "1">>, kind |-> "TOKEN_IDENTIFIER"],
       [text |-> <<"_">>, kind |-> "TOKEN_IDENTIFIER"]
    >>

TokenTextSources == {TokenTexts[i].text : i \in 1..Len(TokenTexts)}

ExpectedKind(text) ==
    TokenTexts[CHOOSE i \in 1..Len(TokenTexts) : TokenTexts[i].text = text].kind

LexDone == Len(lexToks) > 0 /\ lexToks[Len(lexToks)].type = "TOKEN_EOF"

\* the text tokenize_mode prints for a token: its value, "" when absent
Lexeme(tok) == IF tok.value = NullStr THEN <<>> ELSE tok.value

RECURSIVE JoinLexemes(_)
JoinLexemes(toks) ==
    IF Len(toks) = 0 THEN <<>>
    ELSE IF Len(toks) = 1 THEN Lexeme(toks[1])
    ELSE Lexeme(toks[1]) \o <<" ">> \o JoinLexemes(Tail(toks))

\* the tokens before the end marker
BeforeEof(toks) == SubSeq(toks, 1, Len(toks) - 1)

LexInit ==
    /\ NotLexIdle
    /\ lexInput \in BoundedSources \cup TokenTextSources
    /\ lexer = lexer_create(lexInput)
    /\ lexToks = <<>>
    /\ lexPass = 1
    /\ lexFirst = <<>>

LexNextToken ==
    /\ ~LexDone
    /\ LET r == lexer_next_token(lexer)
       IN /\ lexer' = r.lexer
          /\ lexToks' = Append(lexToks, r.token)
    /\ UNCHANGED <<lexPass, lexFirst, lexInput>>
    /\ UNCHANGED notLex

LexRescan ==
    /\ LexDone
    /\ lexPass = 1
    /\ lexer' = lexer_create(JoinLexemes(BeforeEof(lexToks)))
    /\ lexFirst' = lexToks
    /\ lexToks' = <<>>
    /\ lexPass' = 2
    /\ UNCHANGED lexInput
    /\ UNCHANGED notLex

LexNext == LexNextToken \/ LexRescan

LexSpec == LexInit /\ [][LexNext]_vars

(***************************************************************************)
(* The parser as a machine: pstack holds one frame per production that is  *)
(* running, the innermost last.  A frame names its production (fn), where  *)
(* it waits (pc) and its locals.                                           *)
(***************************************************************************)
Top(stack) == stack[Len(stack)]
Pop(stack) == SubSeq(stack, 1, Len(stack) - 1)
SetTop(stack, frame) == [stack EXCEPT ![Len(stack)] = frame]

ParseFrame == [fn |-> "parse", pc |-> "loop"]
ExpressionFrame == [fn |-> "parse_expression", pc |-> "start"]
PrimaryFrame == [fn |-> "parse_primary", pc |-> "start"]
BinaryFrame(left, min_precedence) ==
    [fn |-> "parse_binary", pc |-> "loop", left |-> left,
     min_precedence |-> min_precedence, op_token |-> NullTok,
     precedence |-> 0, right |-> NULL]

WhileNode(condition, body) ==
    [type |-> "AST_WHILE", children |-> <<>>, condition |-> condition, body |-> body]
ForNode(variable, iterable, body, is_parallel) ==
    [type |-> "AST_FOR", children |-> <<>>, variable |-> variable,
     iterable |-> iterable, body |-> body, is_parallel |-> is_parallel]
IfNode(condition, then_block, else_block) ==
    [type |-> "AST_IF", children |-> <<>>, condition |-> condition,
     then_block |-> then_block, else_block |-> else_block]
MatchNode(expression) ==
    [type |-> "AST_MATCH", children |-> <<>>, expression |-> expression]

\* A production returns `value` to the frame now on top of `stack`, which
\* goes on from where it waited, up to its next call or its own return.
\* The result is [parser, stack, ret].
RECURSIVE Return(_, _, _)
Return(P, stack, value) ==
    LET top == Top(stack)
    IN CASE top.fn = "parse" ->
              \* parse: if (stmt) add_child(root, stmt)
              [parser |-> [P EXCEPT !.root = add_child(@, value)],
               stack |-> stack, ret |-> value]
         [] top.fn = "parse_expression" /\ top.pc = "primary" ->
              \* parse_expression: parse_binary(parse_primary(), 0)
              [parser |-> P,
               stack |-> Append(SetTop(stack, [top EXCEPT !.pc = "binary"]),
                                BinaryFrame(value, 0)),
               ret |-> value]
         [] top.fn = "parse_expression" /\ top.pc = "binary" ->
              Return(P, Pop(stack), value)
         [] top.fn = "parse_primary" ->
              \* case TOKEN_LPAREN: consume ')' and return the expression
              Return(consume(P, "TOKEN_RIGHT_PAREN",
                             "Expected ')' after expression").parser,
                     Pop(stack), value)
         [] top.fn = "parse_binary" /\ top.pc = "right" ->
              [parser |-> P,
               stack |-> SetTop(stack, [top EXCEPT !.right = value,
                                                   !.pc = "after_right"]),
               ret |-> value]
         [] top.fn = "parse_binary" /\ top.pc = "rec" ->
              \* right = parse_binary(right, ...); then the node is built
              [parser |-> P,
               stack |-> SetTop(stack,
                  [top EXCEPT !.left = BinaryNode(top.op_token.type, top.left, value),
                              !.right = value, !.pc = "loop"]),
               ret |-> value]
         [] top.fn = "parse_while" ->
              LET c == consume(P, "TOKEN_COLON", "Expected ':' after while condition")
              IN Return(c.parser, Pop(stack), WhileNode(value, parse_block))
         [] top.fn = "parse_for" ->
              LET c == consume(P, "TOKEN_COLON", "Expected ':' after for expression")
              IN Return(c.parser, Pop(stack),
                        ForNode(top.variable, value, parse_block, top.is_parallel))
         [] top.fn = "parse_match" ->
              LET c1 == consume(P, "TOKEN_COLON", "Expected ':' after match expression")
                  c2 == consume(c1.parser, "TOKEN_LEFT_BRACE",
                                "Expected '{' to start match cases")
              IN IF ~check(c2.parser, "TOKEN_RIGHT_BRACE") /\ ~is_at_end(c2.parser)
                 THEN \* the case loop: parse_match_case consumes no token
                      [parser |-> c2.parser,
                       stack |-> SetTop(stack, [top EXCEPT !.pc = "cases",
                                                           !.expression = value]),
                       ret |-> value]
                 ELSE Return(consume(c2.parser, "TOKEN_RIGHT_BRACE",
                                     "Expected '}' after match cases").parser,
                             Pop(stack), MatchNode(value))
         [] top.fn = "parse_if" /\ top.pc = "cond" ->
              LET c == consume(P, "TOKEN_COLON", "Expected ':' after if condition")
                  m1 == match(c.parser, "TOKEN_ELIF")
                  m2 == match(c.parser, "TOKEN_ELSE")
              IN IF m1.matched
                 THEN \* the elif branch: parse_if_statement again
                      [parser |-> consume(m1.parser, "TOKEN_IF", "Expected 'if'").parser,
                       stack |-> SetTop(stack, [top EXCEPT !.pc = "elif",
                                                           !.condition = value])
                                 \o <<[fn |-> "parse_if", pc |-> "cond",
                                       condition |-> NULL], ExpressionFrame>>,
                       ret |-> value]
                 ELSE IF m2.matched
                 THEN Return(consume(m2.parser, "TOKEN_COLON",
                                     "Expected ':' after else").parser,
                             Pop(stack), IfNode(value, parse_block, parse_block))
                 ELSE Return(c.parser, Pop(stack), IfNode(value, parse_block, NULL))
         [] top.fn = "parse_if" /\ top.pc = "elif" ->
              Return(P, Pop(stack), IfNode(top.condition, parse_block, value))

ParRunning == pstate = "running" /\ psteps < MaxSteps

\* the effect of one step that neither ends the run nor faults
ParStep(r) ==
    /\ g_parser' = r.parser
    /\ pstack' = r.stack
    /\ pret' = r.ret
    /\ psteps' = psteps + 1
    /\ UNCHANGED <<pinput, pstate, presult>>
    /\ UNCHANGED notPar

ParFault(P) ==
    /\ g_parser' = P
    /\ pstate' = "fault"
    /\ psteps' = psteps + 1
    /\ UNCHANGED <<pinput, pstack, pret, presult>>
    /\ UNCHANGED notPar

\* parse(): the entry, up to the first test of the statement loop
ParseBegin ==
    /\ pstate = "idle"
    /\ g_parser' = [g_parser EXCEPT !.tokens = pinput,
                                    !.token_count = Len(pinput),
                                    !.current = 0,
                                    !.errors.count = 0,
                                    !.errors.errors = <<>>,
                                    !.root = create_ast_node("AST_PROGRAM")]
    /\ pstack' = <<ParseFrame>>
    /\ pstate' = "running"
    /\ psteps' = psteps + 1
    /\ UNCHANGED <<pinput, pret, presult>>
    /\ UNCHANGED notPar

AtStatement == ParRunning /\ Top(pstack).fn = "parse" /\ ~is_at_end(g_parser)

CompoundKinds ==
    {"TOKEN_FUNC", "TOKEN_IF", "TOKEN_FOR", "TOKEN_PARALLEL", "TOKEN_WHILE",
     "TOKEN_MATCH"}

\* parse(): the loop has ended
ParseFinish ==
    /\ ParRunning
    /\ Top(pstack).fn = "parse"
    /\ is_at_end(g_parser)
    /\ presult' = IF g_parser.errors.count > 0 THEN NULL ELSE g_parser.root
    /\ pstate' = "returned"
    /\ pstack' = <<>>
    /\ psteps' = psteps + 1
    /\ UNCHANGED <<g_parser, pinput, pret>>
    /\ UNCHANGED notPar

\* parse_statement on a token whose production is a stub of ast.c or
\* parse_block
ParseSimpleStatement ==
    /\ AtStatement
    /\ peek(g_parser).type \notin CompoundKinds
    /\ LET type == peek(g_parser).type
           stmt == CASE type = "TOKEN_RETURN" -> parse_return_statement
                     [] type \in {"TOKEN_VAR", "TOKEN_CONST"} ->
                            parse_variable_declaration
                     [] type = "TOKEN_IMPORT" -> parse_import_statement
                     [] type = "TOKEN_LEFT_BRACE" -> parse_block
                     [] OTHER -> parse_expression_statement
       IN ParStep(Return(g_parser, pstack, stmt))

ParseFunction ==
    /\ AtStatement
    /\ peek(g_parser).type = "TOKEN_FUNC"
    /\ LET r == parse_function(g_parser)
       IN IF r.fault THEN ParFault(r.parser)
          ELSE ParStep(Return(r.parser, pstack, r.node))

ParseIfStatement ==
    /\ AtStatement
    /\ peek(g_parser).type = "TOKEN_IF"
    /\ LET c == consume(g_parser, "TOKEN_IF", "Expected 'if'")
       IN ParStep([parser |-> c.parser,
                   stack |-> pstack \o <<[fn |-> "parse_if", pc |-> "cond",
                                          condition |-> NULL], ExpressionFrame>>,
                   ret |-> pret])

ParseForStatement ==
    /\ AtStatement
    /\ peek(g_parser).type \in {"TOKEN_FOR", "TOKEN_PARALLEL"}
    /\ LET m == match(g_parser, "TOKEN_PARALLEL")
           c1 == consume(m.parser, "TOKEN_FOR", "Expected 'for'")
           c2 == consume(c1.parser, "TOKEN_IDENTIFIER", "Expected variable name")
           c3 == consume(c2.parser, "TOKEN_IN", "Expected 'in' after for variable")
       IN IF c2.token = NullTok
          THEN \* var_token->value with var_token absent
               ParFault(c2.parser)
          ELSE ParStep([parser |-> c3.parser,
                        stack |-> pstack \o
                            <<[fn |-> "parse_for", pc |-> "iterable",
                               variable |-> c2.token.value,
                               is_parallel |-> IF m.matched THEN 1 ELSE 0],
                              ExpressionFrame>>,
                        ret |-> pret])

ParseWhileStatement ==
    /\ AtStatement
    /\ peek(g_parser).type = "TOKEN_WHILE"
    /\ LET c == consume(g_parser, "TOKEN_WHILE", "Expected 'while'")
       IN ParStep([parser |-> c.parser,
                   stack |-> pstack \o <<[fn |-> "parse_while", pc |-> "cond"],
                                         ExpressionFrame>>,
                   ret |-> pret])

ParseMatchStatement ==
    /\ AtStatement
    /\ peek(g_parser).type = "TOKEN_MATCH"
    /\ LET c == consume(g_parser, "TOKEN_MATCH", "Expected 'match'")
       IN ParStep([parser |-> c.parser,
                   stack |-> pstack \o <<[fn |-> "parse_match", pc |-> "expr",
                                          expression |-> NULL], ExpressionFrame>>,
                   ret |-> pret])

\* parse_expression: the call of parse_primary
ParseExpression ==
    /\ ParRunning
    /\ Top(pstack).fn = "parse_expression"
    /\ Top(pstack).pc = "start"
    /\ ParStep([parser |-> g_parser,
                stack |-> Append(SetTop(pstack, [Top(pstack) EXCEPT !.pc = "primary"]),
                                 PrimaryFrame),
                ret |-> pret])

\* parse_primary: a leaf returns its node, '(' calls parse_expression
ParsePrimary ==
    /\ ParRunning
    /\ Top(pstack).fn = "parse_primary"
    /\ Top(pstack).pc = "start"
    /\ IF peek(g_parser).type = "TOKEN_LEFT_PAREN"
       THEN ParStep([parser |-> parser_advance(g_parser),
                     stack |-> Append(SetTop(pstack, [Top(pstack) EXCEPT !.pc = "paren"]),
                                      ExpressionFrame),
                     ret |-> pret])
       ELSE LET r == parse_primary_leaf(g_parser)
            IN ParStep(Return(r.parser, Pop(pstack), r.node))

\* parse_binary: the head of the loop, up to the call of parse_primary for
\* the right operand
ParseBinaryLoop ==
    /\ ParRunning
    /\ Top(pstack).fn = "parse_binary"
    /\ Top(pstack).pc = "loop"
    /\ LET top == Top(pstack)
           op_token == peek(g_parser)
           precedence == get_operator_precedence(op_token.type)
       IN IF precedence < top.min_precedence
          THEN ParStep(Return(g_parser, Pop(pstack), top.left))
          ELSE ParStep([parser |-> parser_advance(g_parser),
                        stack |-> Append(SetTop(pstack,
                                     [top EXCEPT !.op_token = op_token,
                                                 !.precedence = precedence,
                                                 !.pc = "right"]),
                                         PrimaryFrame),
                        ret |-> pret])

\* parse_binary: after the right operand, either the recursive call or the
\* node
ParseBinaryRight ==
    /\ ParRunning
    /\ Top(pstack).fn = "parse_binary"
    /\ Top(pstack).pc = "after_right"
    /\ LET top == Top(pstack)
           next_precedence == get_operator_precedence(peek(g_parser).type)
       IN IF BindsRight(top.op_token.type, top.precedence, next_precedence)
          THEN ParStep([parser |-> g_parser,
                        stack |-> Append(SetTop(pstack, [top EXCEPT !.pc = "rec"]),
                                         BinaryFrame(top.right,
                                             RecursionMinPrecedence(top.precedence))),
                        ret |-> pret])
          ELSE ParStep([parser |-> g_parser,
                        stack |-> SetTop(pstack,
                            [top EXCEPT !.left = BinaryNode(top.op_token.type,
                                                            top.left, top.right),
                                        !.pc = "loop"]),
                        ret |-> pret])

ParNext ==
    \/ ParseBegin
    \/ ParseFinish
    \/ ParseSimpleStatement
    \/ ParseFunction
    \/ ParseIfStatement
    \/ ParseForStatement
    \/ ParseWhileStatement
    \/ ParseMatchStatement
    \/ ParseExpression
    \/ ParsePrimary
    \/ ParseBinaryLoop
    \/ ParseBinaryRight

(***************************************************************************)
(* Token arrays handed to parse(): each ends with the TOKEN_EOF the lexer  *)
(* appends, and token_count counts it.                                     *)
(***************************************************************************)
Tok(type, value) == [type |-> type, value |-> value]

\* line and column as the lexer of a one-line source gives them
Place(toks) ==
    [i \in 1..Len(toks) |->
        [type |-> toks[i].type, value |-> toks[i].value, line |-> 1, column |-> i]]

EofTok == Tok("TOKEN_EOF", NullStr)
NumberTok(i) == Tok("TOKEN_NUMBER", <<<<"1", "2", "3", "4", "5", "6", "7", "8", "9">>[i]>>)
IdentTok == Tok("TOKEN_IDENTIFIER", <<"f">>)

\* the text the lexer stores with a token of a fixed spelling; no case of
\* lexer_next_token produces the last five kinds
Spelling(type) ==
    IF \E i \in 1..Len(keywords) : keywords[i].type = type
    THEN keywords[CHOOSE i \in 1..Len(keywords) : keywords[i].type = type].keyword
    ELSE IF \E c \in DOMAIN SingleCharTokens.type : SingleCharTokens.type[c] = type
    THEN <<CHOOSE c \in DOMAIN SingleCharTokens.type : SingleCharTokens.type[c] = type>>
    ELSE CASE type = "TOKEN_EQ" -> <<"=", "=">>
           [] type = "TOKEN_POWER" -> <<"^">>
           [] type = "TOKEN_ARROW" -> <<"-", ">">>
           [] type = "TOKEN_PARALLEL" -> <<"p", "a", "r", "a", "l", "l", "e", "l">>
           [] type = "TOKEN_CONST" -> <<"c", "o", "n", "s", "t">>

Kw(type) == Tok(type, Spelling(type))

OpKinds ==
    {"TOKEN_OR", "TOKEN_EQ", "TOKEN_PLUS", "TOKEN_MINUS", "TOKEN_MULTIPLY",
     "TOKEN_POWER"}

OpSeqs == UNION {[1..n -> OpKinds] : n \in 0..MaxOps}

\* operand 1, ops[1], operand 2, ..., operand Len(ops) + 1
RECURSIVE ExprToks(_, _)
ExprToks(ops, n) ==
    IF n = 0 THEN <<NumberTok(1)>>
    ELSE ExprToks(ops, n - 1) \o <<Kw(ops[n]), NumberTok(n + 1)>>

\* `while <expression>` and `while <expression> :`
WhileInput(ops, colon) ==
    Place(<<Kw("TOKEN_WHILE")>> \o ExprToks(ops, Len(ops))
          \o (IF colon THEN <<Kw("TOKEN_COLON")>> ELSE <<>>) \o <<EofTok>>)

ExprInputs == {WhileInput(ops, colon) : ops \in OpSeqs, colon \in BOOLEAN}

StatementInputs ==
    {Place(toks \o <<EofTok>>) : toks \in
       {<<>>,
        <<Kw("TOKEN_FUNC"), IdentTok, Kw("TOKEN_LEFT_PAREN"), Kw("TOKEN_RIGHT_PAREN"),
          Kw("TOKEN_COLON")>>,
        <<Kw("TOKEN_FUNC"), IdentTok, Kw("TOKEN_LEFT_PAREN"), Kw("TOKEN_RIGHT_PAREN"),
          Kw("TOKEN_ARROW"), Kw("TOKEN_COLON")>>,
        <<Kw("TOKEN_FUNC"), IdentTok, Kw("TOKEN_LEFT_PAREN"), Kw("TOKEN_RIGHT_PAREN"),
          Kw("TOKEN_COLON"),
          Kw("TOKEN_FUNC"), IdentTok, Kw("TOKEN_LEFT_PAREN"), Kw("TOKEN_RIGHT_PAREN"),
          Kw("TOKEN_COLON")>>,
        <<Kw("TOKEN_FUNC"), IdentTok>>,
        <<Kw("TOKEN_FUNC")>>,
        <<Kw("TOKEN_FUNC"), NumberTok(1)>>,
        <<Kw("TOKEN_RETURN"), NumberTok(1)>>,
        <<Kw("TOKEN_VAR"), IdentTok>>,
        <<Kw("TOKEN_CONST"), IdentTok>>,
        <<Kw("TOKEN_IMPORT"), IdentTok>>,
        <<Kw("TOKEN_LEFT_BRACE"), Kw("TOKEN_RIGHT_BRACE")>>,
        <<IdentTok, Kw("TOKEN_PLUS"), IdentTok>>,
        <<Kw("TOKEN_IF"), NumberTok(1), Kw("TOKEN_COLON")>>,
        <<Kw("TOKEN_IF"), Kw("TOKEN_LEFT_PAREN"), NumberTok(1),
          Kw("TOKEN_RIGHT_PAREN"), Kw("TOKEN_COLON")>>,
        <<Kw("TOKEN_IF"), Kw("TOKEN_TRUE"), Kw("TOKEN_COLON")>>,
        <<Kw("TOKEN_FOR"), IdentTok, Kw("TOKEN_IN"), IdentTok, Kw("TOKEN_COLON")>>,
        <<Kw("TOKEN_PARALLEL"), Kw("TOKEN_FOR"), IdentTok, Kw("TOKEN_IN"), IdentTok,
          Kw("TOKEN_COLON")>>,
        <<Kw("TOKEN_FOR"), NumberTok(1)>>,
        <<Kw("TOKEN_PARALLEL")>>,
        <<Kw("TOKEN_MATCH"), IdentTok, Kw("TOKEN_COLON")>>,
        <<Kw("TOKEN_WHILE"), Kw("TOKEN_LEFT_BRACKET")>>,
        <<Kw("TOKEN_WHILE"), Kw("TOKEN_LEFT_BRACE")>>,
        <<Kw("TOKEN_WHILE"), Tok("TOKEN_STRING", <<"s">>)>>,
        <<Kw("TOKEN_WHILE"), Kw("TOKEN_FALSE")>>,
        <<Kw("TOKEN_WHILE")>>}}

\* more functions without a parameter list than the error list has room for
\* diagnostics: each records three
ManyErrors ==
    Place([i \in 1..(2 * MaxSteps) |->
              IF i % 2 = 1 THEN Kw("TOKEN_FUNC") ELSE IdentTok] \o <<EofTok>>)

\* func add(a: i32, b: i32) -> i32: return a + b
TypedFunction ==
    LET Ident(s) == Tok("TOKEN_IDENTIFIER", s)
        i32 == Ident(<<"i", "3", "2">>)
    IN Place(<<Kw("TOKEN_FUNC"), Ident(<<"a", "d", "d">>), Kw("TOKEN_LEFT_PAREN"),
               Ident(<<"a">>), Kw("TOKEN_COLON"), i32, Kw("TOKEN_COMMA"),
               Ident(<<"b">>), Kw("TOKEN_COLON"), i32, Kw("TOKEN_RIGHT_PAREN"),
               Kw("TOKEN_ARROW"), i32, Kw("TOKEN_COLON"),
               Kw("TOKEN_RETURN"), Ident(<<"a">>), Kw("TOKEN_PLUS"), Ident(<<"b">>),
               EofTok>>)

ParInputs == ExprInputs \cup StatementInputs \cup {ManyErrors, TypedFunction}

\* parser_init() has run; parse() has not been called yet
ParInit ==
    /\ NotParIdle
    /\ g_parser = parser_init
    /\ pinput \in ParInputs
    /\ pstack = <<>>
    /\ pret = NULL
    /\ pstate = "idle"
    /\ presult = NULL
    /\ psteps = 0

ParSpec == ParInit /\ [][ParNext]_vars

(***************************************************************************)
(* Programs handed to semantic_analyze(): an AST_PROGRAM node whose        *)
(* children are drawn from SemStatements.                                  *)
(***************************************************************************)
VariableNode(name, type_node, value, is_const) ==
    [type |-> "AST_VARIABLE", children |-> <<>>, name |-> name,
     type_node |-> type_node, value |-> value, is_const |-> is_const]
FunctionNode(name, parameters, return_type, body) ==
    [type |-> "AST_FUNCTION", children |-> <<>>, name |-> name,
     parameters |-> parameters, return_type |-> return_type, body |-> body]
ReturnNode(expression) ==
    [type |-> "AST_RETURN", children |-> <<>>, expression |-> expression]
WithChildren(type, children) ==
    [create_ast_node(type) EXCEPT !.children = children]

Ident(name) == create_identifier_node(<<name>>)
Number1 == create_number_node(<<"1">>)
Use(name) == WithChildren("AST_EXPRESSION_STMT", <<Ident(name)>>)
Declare(name) == VariableNode(<<name>>, NULL, Number1, 0)

SemStatements ==
    {Declare("x"),
     VariableNode(<<"y">>, NULL, Ident("x"), 0),
     VariableNode(<<"x">>, Ident("T"), NULL, 1),
     VariableNode(<<"y">>, NULL, NULL, 0),
     Use("x"),
     Use("u"),
     Use("v"),
     Use("print"),
     WithChildren("AST_EXPRESSION_STMT",
                  <<BinaryNode("TOKEN_PLUS", Ident("u"), Ident("v"))>>),
     WithChildren("AST_BLOCK", <<Declare("x")>>),
     WhileNode(Ident("u"), WithChildren("AST_BLOCK", <<Declare("x")>>)),
     ForNode(<<"i">>, Ident("v"), WithChildren("AST_BLOCK", <<Declare("y")>>), 0),
     IfNode(Ident("u"), WithChildren("AST_BLOCK", <<Use("v")>>), NULL),
     FunctionNode(<<"f">>, WithChildren("AST_BLOCK", <<>>), NULL,
                  WithChildren("AST_BLOCK", <<Declare("x"), Use("u")>>)),
     FunctionNode(<<"g">>, WithChildren("AST_BLOCK", <<>>), Ident("T"),
                  WithChildren("AST_BLOCK", <<ReturnNode(Ident("u"))>>)),
     FunctionNode(<<"h">>, WithChildren("AST_BLOCK", <<>>), NULL,
                  WithChildren("AST_BLOCK", <<ReturnNode(NULL)>>)),
     ReturnNode(NULL)}

\* a program with more undefined identifiers than the error list has room
\* for, and a return after them
ManyUndefined ==
    WithChildren("AST_PROGRAM",
                 [i \in 1..(SemanticErrorCapacity + MaxStmts) |-> Use("u")]
                 \o <<ReturnNode(NULL)>>)

\* a program that declares as many variables as a symbol table has room for,
\* each under a name of its own
VariableNames ==
    <<"a", "b", "c", "d", "e", "f", "g", "h", "i", "j", "k", "l", "m", "n", "o",
      "p", "q", "r", "s", "t">>
ManyDeclarations ==
    WithChildren("AST_PROGRAM", [i \in 1..SymbolCapacity |-> Declare(VariableNames[i])])

\* a function declared in the body of another one, a return after it in the
\* outer body, and a return after both at the top level
InnerFunction ==
    FunctionNode(<<"inner">>, WithChildren("AST_BLOCK", <<>>), NULL,
                 WithChildren("AST_BLOCK", <<ReturnNode(NULL)>>))
OuterFunction ==
    FunctionNode(<<"outer">>, WithChildren("AST_BLOCK", <<>>), NULL,
                 WithChildren("AST_BLOCK", <<InnerFunction, ReturnNode(NULL)>>))
NestedFunctions ==
    WithChildren("AST_PROGRAM", <<OuterFunction, ReturnNode(NULL)>>)

SemPrograms ==
    {WithChildren("AST_PROGRAM", stmts) :
        stmts \in UNION {[1..n -> SemStatements] : n \in 0..MaxStmts}}
    \cup {ManyUndefined, ManyDeclarations, NestedFunctions}

\* semantic_init() has run; semantic_analyze() has not been called yet
SemInit ==
    /\ NotSemIdle
    /\ g_analyzer = semantic_init
    /\ sroot \in SemPrograms
    /\ spos = 0
    /\ sstate = "idle"
    /\ sresult = 0

\* semantic_analyze(): the entry, up to analyze_program's loop
SemanticAnalyzeBegin ==
    /\ sstate = "idle"
    /\ g_analyzer' = [g_analyzer EXCEPT !.errors.count = 0, !.errors.errors = <<>>]
    /\ sstate' = "running"
    /\ UNCHANGED <<sroot, spos, sresult>>
    /\ UNCHANGED notSem

\* analyze_node(root): nothing to visit when root is NULL
RootChildren == IF sroot = NULL THEN <<>> ELSE sroot.children

\* analyze_program: one turn of its loop, the whole analysis of one child
AnalyzeProgramChild ==
    /\ sstate = "running"
    /\ spos < Len(RootChildren)
    /\ g_analyzer' = analyze_node(g_analyzer, RootChildren[spos + 1])
    /\ spos' = spos + 1
    /\ UNCHANGED <<sroot, sstate, sresult>>
    /\ UNCHANGED notSem

\* semantic_analyze(): after analyze_node(root)
SemanticAnalyzeReturn ==
    /\ sstate = "running"
    /\ spos = Len(RootChildren)
    /\ sresult' = IF g_analyzer.errors.count > 0 THEN -1 ELSE 0
    /\ sstate' = "returned"
    /\ UNCHANGED <<g_analyzer, sroot, spos>>
    /\ UNCHANGED notSem

SemNext ==
    \/ SemanticAnalyzeBegin
    \/ AnalyzeProgramChild
    \/ SemanticAnalyzeReturn

SemSpec == SemInit /\ [][SemNext]_vars


(***************************************************************************)
(* parse() followed by semantic_analyze() on what parse returned, as a     *)
(* caller of the two stages runs them.                                     *)
(***************************************************************************)
\* semantic_analyze(parse(tokens, token_count)): the entry
SemanticAnalyzeParsed ==
    /\ pstate = "returned"
    /\ sstate = "idle"
    /\ sroot' = presult
    /\ g_analyzer' = [g_analyzer EXCEPT !.errors.count = 0, !.errors.errors = <<>>]
    /\ sstate' = "running"
    /\ UNCHANGED <<spos, sresult>>
    /\ UNCHANGED notSem

PipelineInit == ParInit

PipelineNext ==
    \/ ParNext
    \/ SemanticAnalyzeParsed
    \/ AnalyzeProgramChild
    \/ SemanticAnalyzeReturn

PipelineSpec == PipelineInit /\ [][PipelineNext]_vars
(***************************************************************************)
(* Lowering of one analyzed function, a statement of its body at a time.   *)
(***************************************************************************)
Assign(name, value) == VariableNode(<<name>>, NULL, value, 0)
BlockOf(stmts) == WithChildren("AST_BLOCK", stmts)

IrStatements ==
    {Assign("x", Number1),
     Assign("x", BinaryNode("TOKEN_PLUS", Ident("x"), Number1)),
     ReturnNode(Ident("x")),
     ReturnNode(BinaryNode("TOKEN_PLUS", Ident("a"), Ident("b"))),
     IfNode(Ident("x"), BlockOf(<<ReturnNode(Ident("x"))>>), NULL),
     IfNode(Ident("x"), BlockOf(<<Assign("x", Number1)>>),
            BlockOf(<<ReturnNode(Number1)>>)),
     WhileNode(BinaryNode("TOKEN_LT", Ident("x"), Number1),
               BlockOf(<<Assign("x", BinaryNode("TOKEN_PLUS", Ident("x"), Number1))>>)),
     WhileNode(Ident("x"), BlockOf(<<ReturnNode(Ident("x"))>>)),
     ForNode(<<"i">>, Ident("x"),
             BlockOf(<<IfNode(Ident("i"), BlockOf(<<ReturnNode(Ident("i"))>>), NULL)>>),
             1)}

IrFunctions ==
    {FunctionNode(<<"f">>, BlockOf(<<>>), NULL, BlockOf(stmts)) :
        stmts \in UNION {[1..n -> IrStatements] : n \in 0..MaxStmts}}

IrInit ==
    /\ NotIrIdle
    /\ ir_builder = ir_builder_create(ir_module_create(<<"m">>))
    /\ irFunc \in IrFunctions
    /\ irPos = 0
    /\ irState = "idle"

\* an IR function and its entry block are created
LowerFunctionBegin ==
    /\ irState = "idle"
    /\ ir_builder' =
           ir_builder_set_block(
               AddBlock(ir_builder_set_function(ir_builder,
                                                ir_function_create(irFunc.name)),
                        "entry"),
               1)
    /\ irState' = "lowering"
    /\ UNCHANGED <<irFunc, irPos>>
    /\ UNCHANGED notIr

\* the next statement of the body is lowered; an internal fault abandons
\* the unit
LowerBodyStatement ==
    /\ irState = "lowering"
    /\ irPos < Len(irFunc.body.children)
    /\ LET B == LowerStatement(ir_builder, irFunc.body.children[irPos + 1])
       IN /\ ir_builder' = B
          /\ irState' = IF B.fault THEN "fault" ELSE "lowering"
    /\ irPos' = irPos + 1
    /\ UNCHANGED irFunc
    /\ UNCHANGED notIr

\* the function is handed on; a block still open at this point is an
\* internal fault and the unit is abandoned
LowerFunctionEnd ==
    /\ irState = "lowering"
    /\ irPos = Len(irFunc.body.children)
    /\ IF BlockTerminated(CurrentBlock(ir_builder))
       THEN irState' = "done" /\ UNCHANGED ir_builder
       ELSE irState' = "fault" /\ ir_builder' = [ir_builder EXCEPT !.fault = TRUE]
    /\ UNCHANGED <<irFunc, irPos>>
    /\ UNCHANGED notIr

IrNext ==
    \/ LowerFunctionBegin
    \/ LowerBodyStatement
    \/ LowerFunctionEnd

IrSpec == IrInit /\ [][IrNext]_vars


(***************************************************************************)
(* main() of src/src/main.c, one action per step.                          *)
(***************************************************************************)
\* the options a command line is made of
OptionArgs ==
    {[c |-> x, optarg |-> ""] : x \in {"f", "b", "t", "O", "v", "h", "?"}}
    \cup {[c |-> "o", optarg |-> "out.txt"]}
    \cup {[c |-> "T", optarg |-> t] : t \in {"x86_64", "arm64", "riscv64", "mips"}}

OptionLists == UNION {[1..n -> OptionArgs] : n \in 0..MaxArgs}

\* the command lines: the third names a file that does not exist
CommandLines ==
    {[opts |-> o, operands |-> f] :
        o \in OptionLists,
        f \in {<<>>, <<"add.gp">>, <<"count.gp">>, <<"missing.gp">>}}

DrvInit ==
    /\ NotDrvIdle
    /\ argv \in CommandLines
    /\ options = DefaultOptions
    /\ out_file = <<>>
    /\ std_out = <<>>
    /\ std_err = <<>>
    /\ mainPc = "parse_arguments"
    /\ mainLine = 0
    /\ mainResult = -1

\* main: options = parse_arguments(argc, argv), which may exit(1)
ParseArguments ==
    /\ mainPc = "parse_arguments"
    /\ LET r == parse_arguments(argv)
       IN /\ options' = r.options
          /\ IF r.error # <<>>
             THEN /\ std_err' = Append(std_err, r.error)
                  /\ mainResult' = 1
                  /\ mainPc' = "exited"
             ELSE /\ mainPc' = "main"
                  /\ UNCHANGED <<std_err, mainResult>>
    /\ UNCHANGED <<argv, out_file, std_out, mainLine, notDrv>>

\* main: the help and no-input exits, the banner and the switch on the mode
Main ==
    /\ mainPc = "main"
    /\ IF options.mode = "MODE_HELP"
       THEN /\ std_out' = std_out \o print_usage("gplang")
            /\ mainResult' = 0
            /\ mainPc' = "exited"
            /\ UNCHANGED std_err
       ELSE IF options.input_file = NoFile
       THEN /\ std_err' = Append(std_err, <<"Error:", "No", "input", "file", "specified">>)
            /\ std_out' = std_out \o print_usage("gplang")
            /\ mainResult' = 1
            /\ mainPc' = "exited"
       ELSE /\ std_out' =
                 IF options.verbose
                 THEN std_out \o
                      << <<"GPLANG", "Compiler">>,
                         <<"Input:", options.input_file>>,
                         <<"Target:", target_arch_to_string(options.target)>>,
                         <<"Mode:",
                           CASE options.mode = "MODE_TOKENIZE_ONLY" -> "Tokenize"
                             [] options.mode = "MODE_FRONTEND_ONLY" -> "Frontend"
                             [] options.mode = "MODE_BACKEND_ONLY" -> "Backend"
                             [] options.mode = "MODE_FULL_COMPILE" -> "Full Compile"
                             [] OTHER -> "Unknown">>,
                         <<>> >>
                 ELSE std_out
            /\ mainPc' = CASE options.mode = "MODE_TOKENIZE_ONLY" -> "tokenize_mode"
                           [] options.mode = "MODE_FRONTEND_ONLY" -> "frontend_mode"
                           [] options.mode = "MODE_BACKEND_ONLY" -> "backend_mode"
                           [] options.mode = "MODE_FULL_COMPILE" -> "frontend_mode"
            /\ UNCHANGED <<std_err, mainResult>>
    /\ UNCHANGED <<argv, options, out_file, mainLine, notDrv>>

\* tokenize_mode: a line for every token before TOKEN_EOF
TokenizeMode ==
    /\ mainPc = "tokenize_mode"
    /\ LET source == read_file(options.input_file)
           begun == std_out \o Verbose(options, <<"Tokenizing:", options.input_file>>)
           lines == TokenizeLoop(lexer_create(source), <<>>)
           w == WriteOutput(options, <<>>, begun, lines)
       IN IF source = NullStr
          THEN /\ std_err' = Append(std_err, <<"Error:", "Cannot", "open", "file",
                                               options.input_file>>)
               /\ std_out' = begun
               /\ mainResult' = 1
               /\ UNCHANGED out_file
          ELSE /\ out_file' = w.out_file
               /\ std_out' = w.std_out \o
                     Verbose(options, <<"Tokenization", "complete:", Len(lines), "tokens">>)
               /\ mainResult' = 0
               /\ UNCHANGED std_err
    /\ mainPc' = "main_return"
    /\ UNCHANGED <<argv, options, mainLine, notDrv>>

\* frontend_mode up to the first fprintf: the source is read, a lexer is
\* created on it and never asked for a token, the output is opened
FrontendMode ==
    /\ mainPc = "frontend_mode"
    /\ std_out' = std_out \o Verbose(options, <<"Frontend:", options.input_file, "->", "IR">>)
    /\ IF read_file(options.input_file) = NullStr
       THEN /\ std_err' = Append(std_err, <<"Error:", "Cannot", "open", "file",
                                            options.input_file>>)
            /\ mainResult' = 1
            /\ mainPc' = "frontend_returned"
            /\ UNCHANGED out_file
       ELSE /\ out_file' = <<>>
            /\ mainPc' = "frontend_output"
            /\ UNCHANGED <<std_err, mainResult>>
    /\ mainLine' = 0
    /\ UNCHANGED <<argv, options, notDrv>>

\* frontend_mode: one fprintf(output, ...) of the IR
FrontendPrintLine ==
    /\ mainPc = "frontend_output"
    /\ mainLine < Len(PlaceholderIR(options))
    /\ LET w == WriteOutput(options, out_file, std_out,
                            <<PlaceholderIR(options)[mainLine + 1]>>)
       IN /\ out_file' = w.out_file
          /\ std_out' = w.std_out
    /\ mainLine' = mainLine + 1
    /\ UNCHANGED <<argv, options, std_err, mainPc, mainResult, notDrv>>

\* frontend_mode: return 0 after the last line
FrontendReturn ==
    /\ mainPc = "frontend_output"
    /\ mainLine = Len(PlaceholderIR(options))
    /\ std_out' = std_out \o
          Verbose(options, <<"Frontend", "complete:", "IR", "generated">>)
    /\ mainResult' = 0
    /\ mainPc' = "frontend_returned"
    /\ UNCHANGED <<argv, options, out_file, std_err, mainLine, notDrv>>

\* main: after frontend_mode; a full compilation goes on to backend_mode when
\* the front end returned 0
AfterFrontend ==
    /\ mainPc = "frontend_returned"
    /\ mainPc' = IF options.mode = "MODE_FULL_COMPILE" /\ mainResult = 0
                 THEN "backend_mode" ELSE "main_return"
    /\ UNCHANGED <<argv, options, out_file, std_out, std_err, mainLine, mainResult,
                   notDrv>>

\* backend_mode: the output is opened anew and the assembly of the target
\* written; no file is read
BackendMode ==
    /\ mainPc = "backend_mode"
    /\ LET begun == std_out \o
                    Verbose(options, <<"Backend:", "IR", "->",
                                       target_arch_to_string(options.target),
                                       "Assembly">>)
           lines == CASE options.target = "TARGET_X86_64" -> PlaceholderX86
                      [] options.target = "TARGET_ARM64" -> PlaceholderARM64
                      [] OTHER -> <<>>
           w == WriteOutput(options, <<>>, begun, lines)
       IN /\ out_file' = w.out_file
          /\ std_out' = w.std_out \o
                Verbose(options, <<"Backend", "complete:",
                                   target_arch_to_string(options.target),
                                   "assembly", "generated">>)
    /\ mainResult' = 0
    /\ mainPc' = "main_return"
    /\ UNCHANGED <<argv, options, std_err, mainLine, notDrv>>

\* main: return result
MainReturn ==
    /\ mainPc = "main_return"
    /\ std_out' = std_out \o
          (IF options.verbose
           THEN << <<>>, IF mainResult = 0
                         THEN <<"Compilation", "successful!">>
                         ELSE <<"Compilation", "failed!">> >>
           ELSE <<>>)
    /\ mainPc' = "exited"
    /\ UNCHANGED <<argv, options, out_file, std_err, mainLine, mainResult, notDrv>>

DrvNext ==
    \/ ParseArguments
    \/ Main
    \/ TokenizeMode
    \/ FrontendMode
    \/ FrontendPrintLine
    \/ FrontendReturn
    \/ AfterFrontend
    \/ BackendMode
    \/ MainReturn

DriverSpec == DrvInit /\ [][DrvNext]_vars
(***************************************************************************)
(* A module built by hand: calls of the constructors of ir.c, each new     *)
(* object linked to the end of its list, and then the dump.  The same      *)
(* calls build a twin in other memory.                                     *)
(***************************************************************************)
\* most constructor calls (functions, blocks, instructions) of one module
MaxCalls == 3

\* what freshly allocated memory may hold
Garbage == {0, 1}

PrNames == {"f", "g"}
PrLabels == {NoText, "entry"}
PrOpcodes == {"IR_ADD", "IR_BRANCH"}
PrComments == {NoText, "c"}
OperandSlots == {"dest", "src1", "src2", "src3"}

CallsMade(module) ==
    LET Instructions(function) ==
            Concat([b \in 1..Len(function.blocks) |-> function.blocks[b].instructions])
    IN Len(module.functions)
       + Len(Concat([f \in 1..Len(module.functions) |-> module.functions[f].blocks]))
       + Len(Concat([f \in 1..Len(module.functions) |->
                        Instructions(module.functions[f])]))

\* ir_instruction_create and the operands in `present`, each a value made
\* by its constructor in memory that held `garbage`
BuiltInstruction(opcode, present, comment, garbage) ==
    LET Value(slot, assigned) ==
            IF slot \in present THEN Constructed(malloc_IRValue(garbage), assigned)
            ELSE NULL
    IN [ir_instruction_create(opcode) EXCEPT
           !.dest = Value("dest", ir_value_create_register(1)),
           !.src1 = Value("src1", ir_value_create_constant_int(7)),
           !.src2 = Value("src2", ir_value_create_constant_string("s")),
           !.src3 = Value("src3", ir_value_create_register(3)),
           !.comment = comment]

LinkFunction(module, function) == [module EXCEPT !.functions = Append(@, function)]
LinkBlock(module, block) ==
    [module EXCEPT !.functions[Len(module.functions)].blocks = Append(@, block)]
LinkInstruction(module, instruction) ==
    LET f == Len(module.functions)
        b == Len(module.functions[f].blocks)
    IN [module EXCEPT !.functions[f].blocks[b] =
                          ir_basic_block_add_instruction(@, instruction)]

PrBuilding == prDump = NoDump /\ prModule.name # "idle"

PrInit ==
    /\ NotPrIdle
    /\ prModule = ir_module_create("m")
    /\ prTwin = ir_module_create("m")
    /\ prDump = NoDump
    /\ prTwinDump = NoDump

\* the caller names the source file and the target of the module
PrSetMetadata ==
    /\ PrBuilding
    /\ prModule.source_file = NoText
    /\ prModule' = [prModule EXCEPT !.source_file = "a.gp", !.target_triple = "x86_64"]
    /\ prTwin' = [prTwin EXCEPT !.source_file = "a.gp", !.target_triple = "x86_64"]
    /\ UNCHANGED <<prDump, prTwinDump>>
    /\ UNCHANGED notPr

PrCreateFunction ==
    /\ PrBuilding
    /\ CallsMade(prModule) < MaxCalls
    /\ \E name \in PrNames :
          /\ prModule' = LinkFunction(prModule, ir_function_create(name))
          /\ prTwin' = LinkFunction(prTwin, ir_function_create(name))
    /\ UNCHANGED <<prDump, prTwinDump>>
    /\ UNCHANGED notPr

PrCreateBlock ==
    /\ PrBuilding
    /\ CallsMade(prModule) < MaxCalls
    /\ Len(prModule.functions) > 0
    /\ \E label \in PrLabels :
          /\ prModule' = LinkBlock(prModule, ir_basic_block_create(label))
          /\ prTwin' = LinkBlock(prTwin, ir_basic_block_create(label))
    /\ UNCHANGED <<prDump, prTwinDump>>
    /\ UNCHANGED notPr

PrCreateInstruction ==
    /\ PrBuilding
    /\ CallsMade(prModule) < MaxCalls
    /\ Len(prModule.functions) > 0
    /\ Len(prModule.functions[Len(prModule.functions)].blocks) > 0
    /\ \E opcode \in PrOpcodes, present \in SUBSET OperandSlots,
          comment \in PrComments, garbage \in Garbage :
          /\ prModule' = LinkInstruction(prModule,
                             BuiltInstruction(opcode, present, comment, 0))
          /\ prTwin' = LinkInstruction(prTwin,
                           BuiltInstruction(opcode, present, comment, garbage))
    /\ UNCHANGED <<prDump, prTwinDump>>
    /\ UNCHANGED notPr

\* ir_module_print on the module and on its twin
PrPrint ==
    /\ PrBuilding
    /\ prDump' = ir_module_print(prModule)
    /\ prTwinDump' = ir_module_print(prTwin)
    /\ UNCHANGED <<prModule, prTwin>>
    /\ UNCHANGED notPr

PrNext ==
    \/ PrSetMetadata
    \/ PrCreateFunction
    \/ PrCreateBlock
    \/ PrCreateInstruction
    \/ PrPrint

PrintSpec == PrInit /\ [][PrNext]_vars
(***************************************************************************)
(* Callers of the tracker: any sequence of its operations on the blocks    *)
(* safe_alloc has handed out.                                              *)
(***************************************************************************)
\* most blocks safe_alloc hands out
MaxAllocs == 2
\* most borrow handles the callers obtain
MaxHandles == 3

Owners == {1, 2}
Pointers == 1..MaxAllocs
\* the sizes the callers ask for
Sizes == {8}

MsInit ==
    /\ NotMsIdle
    /\ g_safety_context = safety_init
    /\ handles = <<>>

\* malloc returns a block that is not allocated now
SafeAlloc ==
    /\ g_safety_context.region_count < MaxAllocs
    /\ \E owner \in Owners, size \in Sizes,
          ptr \in {p \in Pointers : find_region(g_safety_context, p) = 0} :
          g_safety_context' =
              safe_alloc(g_safety_context, ptr, size, owner).context
    /\ UNCHANGED handles
    /\ UNCHANGED notMs

SafeFree ==
    /\ \E ptr \in Pointers, owner \in Owners :
          g_safety_context' = safe_free(g_safety_context, ptr, owner).context
    /\ UNCHANGED handles
    /\ UNCHANGED notMs

\* the caller keeps the handle it was given when it is valid
SafeBorrow ==
    /\ Len(handles) < MaxHandles
    /\ \E ptr \in Pointers, borrower \in Owners :
          LET r == safe_borrow(g_safety_context, ptr, borrower)
          IN /\ g_safety_context' = r.context
             /\ handles' = IF r.handle.is_valid = 1 THEN Append(handles, r.handle)
                           ELSE handles
    /\ UNCHANGED notMs

SafeBorrowMut ==
    /\ Len(handles) < MaxHandles
    /\ \E ptr \in Pointers, borrower \in Owners :
          LET r == safe_borrow_mut(g_safety_context, ptr, borrower)
          IN /\ g_safety_context' = r.context
             /\ handles' = IF r.handle.is_valid = 1 THEN Append(handles, r.handle)
                           ELSE handles
    /\ UNCHANGED notMs

SafeReleaseBorrow ==
    /\ \E i \in 1..Len(handles) :
          LET r == safe_release_borrow(g_safety_context, handles[i])
          IN /\ g_safety_context' = r.context
             /\ handles' = [handles EXCEPT ![i] = r.handle]
    /\ UNCHANGED notMs

SafeMove ==
    /\ \E ptr \in Pointers, old_owner \in Owners, new_owner \in Owners :
          g_safety_context' =
              safe_move(g_safety_context, ptr, old_owner, new_owner).context
    /\ UNCHANGED handles
    /\ UNCHANGED notMs

MsNext ==
    \/ SafeAlloc
    \/ SafeFree
    \/ SafeBorrow
    \/ SafeBorrowMut
    \/ SafeReleaseBorrow
    \/ SafeMove

SafetySpec == MsInit /\ [][MsNext]_vars
(***************************************************************************)
(* Two parse() runs of one process, interleaved: each has its own locals   *)
(* (its token array, its call stack, its result), and both work on the one *)
(* g_parser of parser.c.  The run that is not on the processor is parked.  *)
(***************************************************************************)
\* most context switches between the two runs
MaxSwitches == 2

\* k declarations `func f ( ) :`
RECURSIVE FunctionToks(_)
FunctionToks(k) ==
    IF k = 0 THEN <<>>
    ELSE FunctionToks(k - 1) \o
         <<Kw("TOKEN_FUNC"), IdentTok, Kw("TOKEN_LEFT_PAREN"), Kw("TOKEN_RIGHT_PAREN"),
           Kw("TOKEN_COLON")>>

FunctionInputs == {Place(FunctionToks(k) \o <<EofTok>>) : k \in 0..2}

ConcInputs ==
    FunctionInputs \cup
    {Place(toks \o <<EofTok>>) : toks \in
       {<<Kw("TOKEN_RETURN"), NumberTok(1)>>,
        <<Kw("TOKEN_IF"), Kw("TOKEN_LEFT_PAREN"), NumberTok(1),
          Kw("TOKEN_RIGHT_PAREN"), Kw("TOKEN_COLON")>>,
        <<Kw("TOKEN_FOR"), IdentTok, Kw("TOKEN_IN"), IdentTok, Kw("TOKEN_COLON")>>,
        <<Kw("TOKEN_MATCH"), IdentTok, Kw("TOKEN_COLON")>>,
        <<Kw("TOKEN_WHILE"), NumberTok(1), Kw("TOKEN_POWER"), NumberTok(2),
          Kw("TOKEN_POWER"), NumberTok(3)>>}}

ConcInit ==
    /\ ParserOnlyIdle
    /\ g_parser = parser_init
    /\ pinput \in ConcInputs
    /\ pstack = <<>>
    /\ pret = NULL
    /\ pstate = "idle"
    /\ presult = NULL
    /\ psteps = 0
    /\ \E other \in FunctionInputs :
          parked = [pinput |-> other, pstack |-> <<>>, pret |-> NULL,
                    pstate |-> "idle", presult |-> NULL, psteps |-> 0,
                    switches |-> 0]

\* the scheduler takes the running parse() off the processor and puts the
\* parked one on; g_parser is the same object for both
Switch ==
    /\ parked.pstate # "none"
    /\ parked.switches < MaxSwitches
    /\ pinput' = parked.pinput
    /\ pstack' = parked.pstack
    /\ pret' = parked.pret
    /\ pstate' = parked.pstate
    /\ presult' = parked.presult
    /\ psteps' = parked.psteps
    /\ parked' = [pinput |-> pinput, pstack |-> pstack, pret |-> pret,
                  pstate |-> pstate, presult |-> presult, psteps |-> psteps,
                  switches |-> parked.switches + 1]
    /\ UNCHANGED <<g_parser, lexVars, semVars, irVars, drvVars, prVars, msVars>>

ConcNext == ParNext \/ Switch

ConcSpec == ConcInit /\ [][ConcNext]_vars
(***************************************************************************)
(* The syntax and the semantic diagnostic channel side by side: a parse()  *)
(* run and a semantic_analyze() run of one process, each on its own input. *)
(***************************************************************************)
DiagTokens == ConcInputs \cup {ManyErrors}
DiagPrograms == {WithChildren("AST_PROGRAM", <<>>), ManyUndefined}

DiagInit ==
    /\ FrontEndOnlyIdle
    /\ g_parser = parser_init
    /\ pinput \in DiagTokens
    /\ pstack = <<>>
    /\ pret = NULL
    /\ pstate = "idle"
    /\ presult = NULL
    /\ psteps = 0
    /\ g_analyzer = semantic_init
    /\ sroot \in DiagPrograms
    /\ spos = 0
    /\ sstate = "idle"
    /\ sresult = 0

DiagNext == ParNext \/ SemNext

DiagnosticsSpec == DiagInit /\ [][DiagNext]_vars
(***************************************************************************)
(* Lexer claims                                                            *)
(***************************************************************************)
\* C3: lexing the text of one well-formed token alone (a keyword, an
\* operator, a delimiter, a number, a string literal, an identifier) returns
\* exactly one token of the expected kind and then the end-of-input token.
ClaimC3_SingleTokenKind ==
    (lexPass = 1 /\ lexInput \in TokenTextSources /\ LexDone) =>
        /\ Len(lexToks) = 2
        /\ lexToks[1].type = ExpectedKind(lexInput)

SameTokens(a, b) ==
    /\ Len(a) = Len(b)
    /\ \A i \in 1..Len(a) : a[i].type = b[i].type /\ a[i].value = b[i].value

LossyKinds == {"TOKEN_STRING", "TOKEN_COMMENT", "TOKEN_ERROR"}

NoLossyToken(toks) == \A i \in 1..Len(toks) : toks[i].type \notin LossyKinds

TablePrecedence(type) ==
    CASE type = "TOKEN_OR" -> 1
      [] type = "TOKEN_AND" -> 2
      [] type \in {"TOKEN_EQ", "TOKEN_NE"} -> 3
      [] type \in {"TOKEN_LT", "TOKEN_LE", "TOKEN_GT", "TOKEN_GE"} -> 4
      [] type \in {"TOKEN_PLUS", "TOKEN_MINUS"} -> 5
      [] type \in {"TOKEN_MULTIPLY", "TOKEN_DIVIDE", "TOKEN_MODULO"} -> 6
      [] type = "TOKEN_POWER" -> 7

\* In `while n1 op1 n2 ...` operand k is token 2k and operator k is token
\* 2k + 1.
OperandCount(toks) ==
    Cardinality({i \in 1..Len(toks) : toks[i].type = "TOKEN_NUMBER"})
OperatorAt(toks, k) == toks[2 * k + 1].type

\* The tree the table and the associativity rule give operands lo..hi: it
\* splits at the operator of lowest precedence, the last such one when
\* it groups to the left and the first one when it groups to the right.
RECURSIVE ExpectedTree(_, _, _)
ExpectedTree(toks, lo, hi) ==
    IF lo = hi THEN create_number_node(toks[2 * lo].value)
    ELSE LET lowest == CHOOSE p \in 1..7 :
                 /\ \E k \in lo..(hi - 1) : TablePrecedence(OperatorAt(toks, k)) = p
                 /\ \A k \in lo..(hi - 1) : TablePrecedence(OperatorAt(toks, k)) >= p
             at == {k \in lo..(hi - 1) : TablePrecedence(OperatorAt(toks, k)) = lowest}
             k == IF lowest = 7 THEN CHOOSE i \in at : \A j \in at : i <= j
                  ELSE CHOOSE i \in at : \A j \in at : i >= j
         IN BinaryNode(OperatorAt(toks, k), ExpectedTree(toks, lo, k),
                       ExpectedTree(toks, k + 1, hi))

ExpectedExpression == ExpectedTree(pinput, 1, OperandCount(pinput))

\* the outermost parse_binary of an expression input is at the head of its
\* loop with every token of the expression consumed
ExprExhausted ==
    /\ pstate = "running"
    /\ pinput \in ExprInputs
    /\ Top(pstack).fn = "parse_binary"
    /\ Top(pstack).pc = "loop"
    /\ Top(pstack).min_precedence = 0
    /\ g_parser.current = 2 * OperandCount(pinput)
    /\ g_parser.errors.count = 0

\* two power operators next to each other
PowerChain(toks) ==
    \E k \in 1..(OperandCount(toks) - 2) :
        OperatorAt(toks, k) = "TOKEN_POWER" /\ OperatorAt(toks, k + 1) = "TOKEN_POWER"

OnlyPower(toks) ==
    /\ OperandCount(toks) >= 3
    /\ \A k \in 1..(OperandCount(toks) - 1) : OperatorAt(toks, k) = "TOKEN_POWER"

\* C1: for an expression over the operators of the table (no chain of power
\* operators), once its tokens are consumed parse_expression returns the
\* tree in which higher precedence binds tighter and equal precedence
\* groups to the left.
ClaimC1_ParseExpressionReturnsTree ==
    [][(ExprExhausted /\ ~PowerChain(pinput)) =>
          /\ Len(pstack') < Len(pstack)
          /\ pret' = ExpectedExpression]_vars

\* what parse_binary has built when the tokens of such an expression are
\* consumed
C1_TreeBuilt ==
    (ExprExhausted /\ ~PowerChain(pinput)) => Top(pstack).left = ExpectedExpression

\* C2: for a chain a ^ b ^ c of power operators parse_binary builds
\* pow(a, pow(b, c)).
ClaimC2_PowerRightAssociative ==
    (ExprExhausted /\ OnlyPower(pinput)) => Top(pstack).left = ExpectedExpression

(***************************************************************************)
(* Scopes and identifier resolution                                        *)
(***************************************************************************)
\* the statement analyze_program analyses next
NextStatement == sroot.children[spos + 1]
AboutToAnalyze == sstate = "running" /\ spos < Len(sroot.children)

BoundIn(G, scope, name) ==
    \E i \in 1..G.scopes[scope].count : G.scopes[scope].symbols[i].name = name

\* the tables identifier resolution is specified to search: the current
\* scope, then each parent in turn
RECURSIVE ScopeChain(_, _)
ScopeChain(G, scope) ==
    IF scope = 0 THEN {} ELSE {scope} \cup ScopeChain(G, G.scopes[scope].parent)

Visible(G, name) == \E s \in ScopeChain(G, G.current_scope) : BoundIn(G, s, name)

\* the direct sub-nodes of a node
SubNodes(node) ==
    LET kids == {node.children[i] : i \in 1..Len(node.children)}
        more == CASE node.type = "AST_FUNCTION" -> {node.parameters, node.body}
                  [] node.type = "AST_VARIABLE" -> {node.value}
                  [] node.type = "AST_BINARY_OP" -> {node.left, node.right}
                  [] node.type = "AST_IF" ->
                         {node.condition, node.then_block, node.else_block}
                  [] node.type = "AST_FOR" -> {node.iterable, node.body}
                  [] node.type = "AST_WHILE" -> {node.condition, node.body}
                  [] node.type = "AST_MATCH" -> {node.expression}
                  [] node.type = "AST_RETURN" -> {node.expression}
                  [] OTHER -> {}
    IN (kids \cup more) \ {NULL}

RECURSIVE NodesOf(_)
NodesOf(node) == {node} \cup UNION {NodesOf(n) : n \in SubNodes(node)}

\* the names a subtree declares as variables
DeclaredIn(node) == {n.name : n \in {m \in NodesOf(node) : m.type = "AST_VARIABLE"}}

\* the number of identifier uses in a sequence of statements
RECURSIVE IdentifierUses(_)
IdentifierUses(node) ==
    LET RECURSIVE Sum(_)
        Sum(S) == IF S = {} THEN 0
                  ELSE LET n == CHOOSE m \in S : TRUE
                       IN IdentifierUses(n) + Sum(S \ {n})
    IN (IF node.type = "AST_IDENTIFIER" THEN 1 ELSE 0) + Sum(SubNodes(node))

RECURSIVE UsesInStatements(_, _)
UsesInStatements(stmts, i) ==
    IF i > Len(stmts) THEN 0
    ELSE IdentifierUses(stmts[i]) + UsesInStatements(stmts, i + 1)

IsUse(node) ==
    /\ node.type = "AST_EXPRESSION_STMT"
    /\ Len(node.children) = 1
    /\ node.children[1].type = "AST_IDENTIFIER"

\* an earlier statement of the program itself declares the variable
DeclaredAtTopLevel(name) ==
    \E j \in 1..spos :
        sroot.children[j].type = "AST_VARIABLE" /\ sroot.children[j].name = name

\* C5: declaring a variable whose name is bound in the current scope records
\* one semantic error and adds no symbol; declaring, in the scope of a
\* function body, a name bound only in the enclosing scope records no error.
ClaimC5_RedeclarationIsError ==
    [][/\ (/\ AboutToAnalyze
           /\ NextStatement.type = "AST_VARIABLE"
           /\ DeclaredAtTopLevel(NextStatement.name)
           /\ BoundIn(g_analyzer, g_analyzer.current_scope, NextStatement.name))
         => /\ g_analyzer'.errors.count = g_analyzer.errors.count + 1
            /\ g_analyzer'.scopes = g_analyzer.scopes
       /\ (/\ AboutToAnalyze
           /\ NextStatement.type = "AST_FUNCTION"
           /\ NextStatement.body = WithChildren("AST_BLOCK", <<Declare("x")>>)
           /\ DeclaredAtTopLevel(<<"x">>)
           /\ BoundIn(g_analyzer, g_analyzer.current_scope, <<"x">>))
         => g_analyzer'.errors.count = g_analyzer.errors.count]_vars

\* C6: a variable declared inside a loop body, a block or a function body
\* is not visible to identifier resolution once the analysis of that
\* statement has completed.
ClaimC6_ScopedDeclarationNotVisible ==
    [][(/\ AboutToAnalyze
        /\ NextStatement.type \in {"AST_BLOCK", "AST_WHILE", "AST_FOR", "AST_FUNCTION"})
       => \A name \in DeclaredIn(NextStatement) :
              ~Visible(g_analyzer, name) => ~Visible(g_analyzer', name)]_vars

\* C7: the use of an identifier that is declared in the current scope or an
\* enclosing one (the built-ins of the global scope included) records no
\* diagnostic; the use of one that is declared in none records one.
ClaimC7_NearestDeclarationResolves ==
    [][(AboutToAnalyze /\ IsUse(NextStatement)) =>
          IF Visible(g_analyzer, NextStatement.children[1].name)
          THEN g_analyzer'.errors = g_analyzer.errors
          ELSE g_analyzer'.errors.count = g_analyzer.errors.count + 1]_vars

\* a unit in which every identifier is undefined and nothing else is wrong:
\* it declares no variable and no function and has no return statement
OnlyUndefinedIdentifiers(root) ==
    \A n \in NodesOf(root) :
        n.type \notin {"AST_VARIABLE", "AST_FUNCTION", "AST_RETURN"}
        /\ (n.type = "AST_IDENTIFIER" => n.name \in {<<"u">>, <<"v">>})

\* C8: for a unit with n undefined identifiers semantic analysis records
\* exactly n diagnostics and visits every statement of the unit.
ClaimC8_OneDiagnosticPerUndefined ==
    (sstate = "returned" /\ OnlyUndefinedIdentifiers(sroot)) =>
        /\ spos = Len(sroot.children)
        /\ g_analyzer.errors.count = UsesInStatements(sroot.children, 1)

(***************************************************************************)
(* IR structure                                                            *)
(***************************************************************************)
IsTerminator(instruction) ==
    instruction.opcode \in {"IR_JUMP", "IR_BRANCH", "IR_RETURN"}

AllBlocks ==
    UNION {{ir_builder.module.functions[f].blocks[b] :
                b \in 1..Len(ir_builder.module.functions[f].blocks)} :
           f \in 1..Len(ir_builder.module.functions)}

InstructionMnemonics ==
    {"add", "sub", "mul", "div", "mod", "eq", "ne", "lt", "le", "gt", "ge",
     "and", "or", "not", "load", "store", "alloca", "jump", "branch", "call",
     "return", "const_int", "const_float", "const_string", "var_decl",
     "var_assign", "print", "read", "cast", "typeof", "nop", "phi"}

\* the text frontend_mode has written to its output
FrontendOutput == IF options.output_file # NoFile THEN out_file ELSE std_out

IsFuncBegin(line) == Len(line) = 2 /\ line[1] = "func_begin"
IsInstruction(line) == Len(line) > 0 /\ line[1] \in InstructionMnemonics

\* the names after func_begin, and the mnemonics of the instruction lines
FunctionNames(text) == [i \in 1..Len(SelectSeq(text, IsFuncBegin)) |->
                           SelectSeq(text, IsFuncBegin)[i][2]]
Mnemonics(text) == [i \in 1..Len(SelectSeq(text, IsInstruction)) |->
                       SelectSeq(text, IsInstruction)[i][1]]

\* the front end has run to its end on the file that holds
\* func add(a: i32, b: i32) -> i32: return a + b
FrontendDoneOnAdd ==
    /\ mainPc = "exited"
    /\ mainResult = 0
    /\ options.mode = "MODE_FRONTEND_ONLY"
    /\ options.input_file = "add.gp"

\* C10: the source func add(a: i32, b: i32) -> i32: return a + b is lowered to
\* one IR function named add whose instructions are the load of a, the load of
\* b, one add of the two and the return of the sum, the return being the only
\* terminator.
ClaimC10_AddLowersToLoadLoadAddReturn ==
    FrontendDoneOnAdd =>
        /\ FunctionNames(FrontendOutput) = <<"@add">>
        /\ Mnemonics(FrontendOutput) = <<"load", "load", "add", "return">>

(***************************************************************************)
(* Diagnostics and recovery                                                *)
(***************************************************************************)
\* parse() has returned after add_error recorded at least one diagnostic
ParseReturnedWithErrors == pstate = "returned" /\ g_parser.errors.count > 0

\* C11: when the tokens hold syntax errors, parse goes on after the first
\* error, and what it returns is the best-effort Program node, not an absent
\* result, the diagnostics being kept in the list beside it.
ClaimC11_ParseReturnsBestEffortProgram ==
    ParseReturnedWithErrors =>
        /\ presult # NULL
        /\ presult.type = "AST_PROGRAM"
        /\ Len(g_parser.errors.errors) = g_parser.errors.count

\* C12: malformed input never drives the parser into a fault: when consume()
\* does not find the token it expects (the name after func, the variable
\* after for) the production records the diagnostic and goes on with the
\* absent token, which it does not dereference.
ClaimC12_ConsumeFailureIsNoFault == pstate # "fault"

\* parse and then semantic_analyze have both returned
PipelineReturned == pstate = "returned" /\ sstate = "returned"

\* C13: a unit that accumulated a syntax or a semantic diagnostic is not
\* reported as valid: when parse and then semantic_analyze on its result have
\* run and either recorded a diagnostic, semantic_analyze does not return 0.
ClaimC13_DiagnosticsMeanNoSuccess ==
    (PipelineReturned /\ (g_parser.errors.count > 0 \/ g_analyzer.errors.count > 0))
        => sresult # 0

\* the driver's half of C13: in a full compilation backend_mode is entered only
\* from the return of frontend_mode with result 0
C13_BackendOnlyAfterFrontendSuccess ==
    [][(options.mode = "MODE_FULL_COMPILE" /\ mainPc' = "backend_mode"
        /\ mainPc # "backend_mode")
          => (mainPc = "frontend_returned" /\ mainResult = 0)]_vars

\* the semantic channel is full and the analysis of the next statement has a
\* diagnostic to record: with room for one more it would record it
SemanticOverflow ==
    /\ sstate = "running"
    /\ spos < Len(RootChildren)
    /\ g_analyzer.errors.count = g_analyzer.errors.capacity
    /\ analyze_node([g_analyzer EXCEPT !.errors.capacity = @ + 1],
                    RootChildren[spos + 1]).errors.count > g_analyzer.errors.count

\* C14: when a diagnostic arrives at a channel whose capacity is exhausted
\* the channel does not drop it silently: it records that diagnostics were
\* truncated (one terminal marker), so the channel is not left as it was.
ClaimC14_TruncationIsMarked ==
    [][SemanticOverflow => g_analyzer'.errors # g_analyzer.errors]_vars

\* the same for the syntax channel: add_error on a full list
ParserOverflow ==
    /\ ParRunning
    /\ g_parser.errors.count = g_parser.errors.capacity
    /\ g_parser'.current # g_parser.current
    /\ Len(pstack') = Len(pstack)

C14_ParserTruncationIsMarked ==
    [][ParserOverflow => g_parser'.errors # g_parser.errors]_vars

(***************************************************************************)
(* Lexer failures                                                          *)
(***************************************************************************)
\* the token the last call of lexer_next_token returned
LastToken == lexToks[Len(lexToks)]
ReturnedError == Len(lexToks) > 0 /\ LastToken.type = "TOKEN_ERROR"

\* C15: every failure of the lexer is an error token plus a recorded
\* diagnostic: when lexer_next_token has returned TOKEN_ERROR, for an unknown
\* character as for an unterminated string, the diagnostic state of the lexer
\* is set (lexer_error sets has_errors together with the message).
ClaimC15_ErrorTokenHasDiagnostic == ReturnedError => lexer.has_errors

\* the text from index i on holds a quote that is not escaped by a backslash
RECURSIVE Closes(_, _)
Closes(s, i) ==
    IF i > Len(s) THEN FALSE
    ELSE IF s[i] = "\"" THEN TRUE
    ELSE IF s[i] = "\\" THEN Closes(s, i + 2)
    ELSE Closes(s, i + 1)

\* the next token starts at a quote that nothing closes
AtUnterminatedString ==
    LET L == skip_whitespace(lexer)
    IN /\ ~LexDone
       /\ current_char(L) = "\""
       /\ ~Closes(L.source, L.position + 2)

\* C16: at a string literal without a closing quote (one that ends in a
\* backslash included) lexer_next_token returns one TOKEN_ERROR placed at the
\* opening quote and records the unterminated-string diagnostic; the cursor
\* is left at the end of the input, not beyond it, and every later call
\* returns end-of-input and moves nothing.
C16_UnterminatedStringIsOneError ==
    [][AtUnterminatedString =>
          LET L == skip_whitespace(lexer)
              again == lexer_next_token(lexer')
          IN /\ lexToks' = Append(lexToks, token_create("TOKEN_ERROR", NullStr,
                                                       L.line, L.column))
             /\ lexer'.has_errors
             /\ lexer'.error_message = "Unterminated string literal"
             /\ lexer'.position = lexer'.source_length
             /\ again.token.type = "TOKEN_EOF"
             /\ again.lexer = lexer']_vars

\* a literal that ends in a backslash has been scanned, and the call after it
\* has returned end-of-input
C16_Witness ==
    /\ lexPass = 1
    /\ Len(lexInput) >= 2
    /\ lexInput[1] = "\""
    /\ lexInput[Len(lexInput)] = "\\"
    /\ Len(lexToks) = 2
    /\ lexToks[1].type = "TOKEN_ERROR"
    /\ lexToks[2].type = "TOKEN_EOF"
    /\ lexer.position = Len(lexInput)

(***************************************************************************)
(* Return statements                                                       *)
(***************************************************************************)
\* the diagnostics of the analyzer that were made from a format
CountOf(G, format) ==
    Cardinality({i \in 1..Len(G.errors.errors) :
                    G.errors.errors[i].message[1] = format})

\* the return statements that analyze_block visits in the body of a function
ReturnsOf(func) ==
    {i \in 1..Len(func.body.children) : func.body.children[i].type = "AST_RETURN"}

\* the types the specification compares: the declared return type of the
\* function (void when none is declared) and the type of the returned
\* expression (void when there is none)
DeclaredReturnType(func) ==
    IF func.return_type = NULL THEN get_void_type ELSE resolve_type(func.return_type)
ReturnedType(ret) ==
    IF ret.expression = NULL THEN get_void_type ELSE get_expression_type(ret.expression)

AboutToAnalyzeFunction == AboutToAnalyze /\ NextStatement.type = "AST_FUNCTION"

\* C17: inside a function a return statement records a return-type-mismatch
\* diagnostic exactly when the type of the returned expression (void when
\* absent) is incompatible with the declared return type of the function; a
\* compatible return records none.
ClaimC17_MismatchOnlyWhenIncompatible ==
    [][AboutToAnalyzeFunction =>
          CountOf(g_analyzer', "Return type mismatch")
              - CountOf(g_analyzer, "Return type mismatch")
            = Cardinality({i \in ReturnsOf(NextStatement) :
                  ~types_compatible(DeclaredReturnType(NextStatement),
                                    ReturnedType(NextStatement.body.children[i]))})]_vars

\* the analysis of the next top-level statement changes the number of
\* "outside function" diagnostics by one when the statement is a return and
\* leaves it alone when it is anything else, a function included
RejectsExactlyTopLevelReturn ==
    CountOf(g_analyzer', "Return statement outside function")
      = CountOf(g_analyzer, "Return statement outside function")
        + (IF NextStatement.type = "AST_RETURN" THEN 1 ELSE 0)

\* C18: a return statement is rejected as "outside function" exactly when it
\* is analysed outside every function body: the analysis of a top-level
\* return records the diagnostic, also after a function declaration has been
\* analysed, and the analysis of a function records none for the returns of
\* its body.
ClaimC18_EveryTopLevelReturnRejected ==
    [][AboutToAnalyze => RejectsExactlyTopLevelReturn]_vars

\* C18 as it holds: the same, while the semantic channel has room for a
\* diagnostic.
C18_ReturnOutsideFunctionRejected ==
    [][(AboutToAnalyze /\ g_analyzer.errors.count < g_analyzer.errors.capacity)
          => RejectsExactlyTopLevelReturn]_vars

\* a function whose body holds a return has been analysed, and the top-level
\* return after it has been rejected: the one rejection is its own
C18_Witness ==
    /\ sstate = "running"
    /\ spos = 2
    /\ sroot.children[1].type = "AST_FUNCTION"
    /\ ReturnsOf(sroot.children[1]) # {}
    /\ sroot.children[2].type = "AST_RETURN"
    /\ CountOf(g_analyzer, "Return statement outside function") = 1
    /\ g_analyzer.in_function = 0

(***************************************************************************)
(* Declarations                                                            *)
(***************************************************************************)
\* the next statement is a variable declaration that analysis accepts: its
\* name is not bound in the current scope, a type is determined for it and
\* the type agrees with the initializer
AcceptedDeclaration ==
    /\ AboutToAnalyze
    /\ NextStatement.type = "AST_VARIABLE"
    /\ ~BoundIn(g_analyzer, g_analyzer.current_scope, NextStatement.name)
    /\ NextStatement.type_node # NULL \/ NextStatement.value # NULL
    /\ \/ NextStatement.value = NULL
       \/ NextStatement.type_node = NULL
       \/ types_compatible(resolve_type(NextStatement.type_node),
                           get_expression_type(NextStatement.value))

\* C19: every variable declaration that is analysed successfully leaves a
\* symbol of its name in the current scope, however many declarations the
\* scope has received.
ClaimC19_AcceptedDeclarationIsBound ==
    [][AcceptedDeclaration =>
          BoundIn(g_analyzer', g_analyzer'.current_scope, NextStatement.name)]_vars

(***************************************************************************)
(* Function declarations                                                   *)
(***************************************************************************)
\* parse_statement is about to be called on the first token of
\* `func add(a: i32, b: i32) -> i32: return a + b`
AtTypedFunction == pinput = TypedFunction /\ AtStatement /\ g_parser.current = 0

\* C20: parsing a well-formed function declaration with typed parameters and
\* an arrow return type consumes the keyword, the name, the parenthesized
\* parameter list, the arrow and the return type and the body introducer, and
\* yields a Function node with the declared name, a parameter list, a return
\* type and a body, and records no syntax diagnostic.
ClaimC20_TypedFunctionParses ==
    [][AtTypedFunction =>
          /\ pret'.type = "AST_FUNCTION"
          /\ pret'.name = <<"a", "d", "d">>
          /\ pret'.parameters # NULL
          /\ pret'.return_type # NULL
          /\ pret'.body # NULL
          /\ g_parser'.current >= 14
          /\ g_parser'.errors.count = 0]_vars

(***************************************************************************)
(* For statements                                                          *)
(***************************************************************************)
\* `for f in f :` or `parallel for f in f :` with the iterable parsed: the
\* parse_binary that parse_expression called for it is at the head of its
\* loop and the next token is the ':' that follows the iterable
AtForIterableEnd ==
    /\ pstate = "running"
    /\ Len(pstack) >= 3
    /\ pstack[Len(pstack) - 2].fn = "parse_for"
    /\ Top(pstack).fn = "parse_binary"
    /\ Top(pstack).pc = "loop"
    /\ Top(pstack).min_precedence = 0
    /\ Top(pstack).left.type = "AST_IDENTIFIER"
    /\ peek(g_parser).type = "TOKEN_COLON"
    /\ g_parser.errors.count = 0

\* C21: the node of a for statement has is_parallel = 1 exactly when the
\* statement begins with the parallel keyword and 0 otherwise, and in both
\* cases it carries the loop variable, an iterable expression and a body:
\* with the iterable parsed, parse_for_statement consumes the ':' and returns
\* that node.
ClaimC21_ForNodeTagsParallel ==
    [][AtForIterableEnd =>
          /\ pret'.type = "AST_FOR"
          /\ pret'.is_parallel =
                 (IF pinput[1].type = "TOKEN_PARALLEL" THEN 1 ELSE 0)
          /\ pret'.variable = <<"f">>
          /\ pret'.iterable = create_identifier_node(<<"f">>)
          /\ pret'.body # NULL]_vars

\* what the model shows instead: no run of the parser ever returns a for node
C21_NoForNodeIsBuilt == pret.type # "AST_FOR"

(***************************************************************************)
(* Comments                                                                *)
(***************************************************************************)
\* the source with every comment removed: a '#' outside a string literal
\* and what follows it up to, not including, the end of its line
RECURSIVE WithoutComments(_, _, _)
WithoutComments(s, i, inString) ==
    IF i > Len(s) THEN <<>>
    ELSE IF inString
    THEN IF s[i] = "\\" /\ i < Len(s)
         THEN <<s[i], s[i + 1]>> \o WithoutComments(s, i + 2, TRUE)
         ELSE <<s[i]>> \o WithoutComments(s, i + 1, s[i] # "\"")
    ELSE IF s[i] = "#"
    THEN LET rest == {j \in i..Len(s) : s[j] = "\n"}
         IN IF rest = {} THEN <<>>
            ELSE WithoutComments(s, CHOOSE j \in rest : \A k \in rest : j <= k, FALSE)
    ELSE <<s[i]>> \o WithoutComments(s, i + 1, s[i] = "\"")

\* lexer_next_token called until it returns the end marker
RECURSIVE AllTokens(_)
AllTokens(L) ==
    LET r == lexer_next_token(L)
    IN IF r.token.type = "TOKEN_EOF" THEN <<r.token>>
       ELSE <<r.token>> \o AllTokens(r.lexer)

KindsAndTexts(toks) ==
    [i \in 1..Len(toks) |-> [type |-> toks[i].type, value |-> toks[i].value]]

\* the first pass over the source has returned the end marker
FirstPassDone == LexDone /\ lexPass = 1

\* C22: comments are ignored by tokenization: a '#' comment running to the
\* end of its line contributes no token, so the tokens of a source with
\* comments are the tokens of the same source with the comments removed.
ClaimC22_CommentsContributeNoToken ==
    FirstPassDone =>
        /\ \A i \in 1..Len(lexToks) : lexToks[i].type # "TOKEN_COMMENT"
        /\ KindsAndTexts(lexToks) =
               KindsAndTexts(AllTokens(lexer_create(WithoutComments(lexInput, 1, FALSE))))

\* without the first conjunct: the tokens other than comments are those of
\* the source without its comments
C22_OtherTokensUnchanged ==
    FirstPassDone =>
        KindsAndTexts(SelectSeq(lexToks, LAMBDA t : t.type # "TOKEN_COMMENT")) =
            KindsAndTexts(AllTokens(lexer_create(WithoutComments(lexInput, 1, FALSE))))

(***************************************************************************)
(* The textual IR dump                                                     *)
(***************************************************************************)
\* ir_module_print has written the module and its twin
Printed == prDump # NoDump

AllInstructions(module) ==
    Concat([f \in 1..Len(module.functions) |->
               Concat([b \in 1..Len(module.functions[f].blocks) |->
                          module.functions[f].blocks[b].instructions])])

IsInstructionLine(line) == Len(line) > 0 /\ line[1] = "    "
IsBeginLine(line) == Len(line) = 2 /\ line[1] = "func_begin @"
IsEndLine(line) == line = <<"func_end">>
IsLabelLine(line) == Len(line) = 2 /\ line[2] = ":"

\* the numbers of a set, smallest first
RECURSIVE Ascending(_)
Ascending(S) ==
    IF S = {} THEN <<>>
    ELSE LET least == CHOOSE i \in S : \A j \in S : i <= j
         IN <<least>> \o Ascending(S \ {least})

\* every function has its own func_begin @name / func_end pair, in the
\* order of creation, and the lines of its blocks and instructions lie
\* inside the pair, in the order of creation
Bracketed(dump, module) ==
    LET begins == Ascending({i \in 1..Len(dump) : IsBeginLine(dump[i])})
        ends == Ascending({i \in 1..Len(dump) : IsEndLine(dump[i])})
    IN /\ Len(begins) = Len(module.functions)
       /\ Len(ends) = Len(module.functions)
       /\ \A f \in 1..Len(module.functions) :
             LET function == module.functions[f]
                 inside == SubSeq(dump, begins[f] + 1, ends[f] - 1)
             IN /\ begins[f] < ends[f]
                /\ f > 1 => ends[f - 1] < begins[f]
                /\ dump[begins[f]] = <<"func_begin @", function.name>>
                /\ SelectSeq(inside, IsLabelLine) =
                       [k \in 1..Len(SelectSeq(function.blocks,
                                               LAMBDA b : b.label # NoText)) |->
                           <<SelectSeq(function.blocks,
                                       LAMBDA b : b.label # NoText)[k].label, ":">>]
                /\ SelectSeq(inside, IsInstructionLine) =
                       LET instructions ==
                               Concat([b \in 1..Len(function.blocks) |->
                                          function.blocks[b].instructions])
                       IN [k \in 1..Len(instructions) |->
                              <<"    ">> \o ir_instruction_print(instructions[k])]
                /\ Len(inside) = Len(SelectSeq(inside, IsLabelLine))
                                 + Len(SelectSeq(inside, IsInstructionLine))

PresentOperands(instruction) ==
    SelectSeq(<<instruction.dest, instruction.src1, instruction.src2,
                instruction.src3>>, LAMBDA value : value # NULL)

\* the mnemonic, a space and the operands with ", " between two of them, then
\* the comment
RECURSIVE CommaSeparated(_)
CommaSeparated(values) ==
    IF Len(values) = 0 THEN <<>>
    ELSE IF Len(values) = 1 THEN ir_value_print(values[1])
    ELSE ir_value_print(values[1]) \o <<", ">> \o CommaSeparated(Tail(values))

ExpectedInstructionText(instruction) ==
    <<ir_opcode_to_string(instruction.opcode)>>
    \o (IF Len(PresentOperands(instruction)) > 0
        THEN <<" ">> \o CommaSeparated(PresentOperands(instruction)) ELSE <<>>)
    \o (IF instruction.comment # NoText
        THEN <<" ; ", instruction.comment>> ELSE <<>>)

\* C24: in the dump each instruction is one line made of the opcode
\* mnemonic and all of its present operands (the destination and up to
\* three sources) separated by commas, then the optional `; comment`: no
\* present operand is left out and every comma stands between two operands,
\* whichever operands are present.
ClaimC24_LineHasAllOperands ==
    Printed =>
        SelectSeq(prDump, IsInstructionLine) =
            [k \in 1..Len(AllInstructions(prModule)) |->
                <<"    ">> \o ExpectedInstructionText(AllInstructions(prModule)[k])]

\* what does hold: an instruction whose destination is present and whose
\* third source is absent is printed as the claim says
C24_WithDestWithoutThirdSource ==
    Printed =>
        \A k \in 1..Len(AllInstructions(prModule)) :
            LET instruction == AllInstructions(prModule)[k]
            IN (instruction.dest # NULL /\ instruction.src3 = NULL) =>
                   SelectSeq(prDump, IsInstructionLine)[k] =
                       <<"    ">> \o ExpectedInstructionText(instruction)

(***************************************************************************)
(* Concurrent compilations                                                 *)
(***************************************************************************)
\* what parse() returns for k declarations `func f ( ) :` when it runs
\* alone: a Program node with the k Function nodes
AloneResult(input) ==
    LET k == Cardinality({i \in 1..Len(input) : input[i].type = "TOKEN_FUNC"})
    IN [type |-> "AST_PROGRAM",
        children |-> [i \in 1..k |->
                         [type |-> "AST_FUNCTION", children |-> <<>>,
                          name |-> <<"f">>, parameters |-> parse_parameter_list,
                          return_type |-> NULL, body |-> parse_block]]]

\* C25: concurrent compilations share no mutable state: when two parse()
\* runs on different inputs are interleaved, each run's cursor, AST and
\* diagnostics are its own, so each run returns what it returns when it
\* runs alone.
ClaimC25_InterleavedRunsAreIndependent ==
    /\ (pstate = "returned" /\ pinput \in FunctionInputs) =>
           presult = AloneResult(pinput)
    /\ (parked.pstate = "returned" /\ parked.pinput \in FunctionInputs) =>
           parked.presult = AloneResult(parked.pinput)

\* a run alone does return that
C25_AloneRunReturnsProgram ==
    (pstate = "returned" /\ pinput \in FunctionInputs) => presult = AloneResult(pinput)

(***************************************************************************)
(* Termination of parse                                                    *)
(***************************************************************************)
\* parse_binary is at the head of its operator loop
AtOperatorLoop ==
    ParRunning /\ Top(pstack).fn = "parse_binary" /\ Top(pstack).pc = "loop"

\* C26: parse terminates for every finite token sequence: an iteration of
\* the top-level statement loop consumes at least one token or ends the
\* run, and an iteration of parse_binary's operator loop consumes at least
\* one token or leaves the loop (a token that is no binary operator ends it
\* unconsumed), so the cursor reaches the end after finitely many steps.
ClaimC26_EveryIterationConsumesOrStops ==
    [][/\ AtStatement =>
              (g_parser'.current > g_parser.current \/ pstate' # "running")
       /\ AtOperatorLoop =>
              IF get_operator_precedence(peek(g_parser).type) = 0
              THEN Len(pstack') < Len(pstack) /\ g_parser'.current = g_parser.current
              ELSE g_parser'.current > g_parser.current]_vars

\* the statement loop alone
C26_StatementLoopConsumes ==
    [][AtStatement =>
          (g_parser'.current > g_parser.current \/ pstate' # "running")]_vars

\* the operator loop alone
C26_OperatorLoopConsumesOrStops ==
    [][AtOperatorLoop =>
          IF get_operator_precedence(peek(g_parser).type) = 0
          THEN Len(pstack') < Len(pstack) /\ g_parser'.current = g_parser.current
          ELSE g_parser'.current > g_parser.current]_vars

(***************************************************************************)
(* Capacity of the diagnostic channels                                     *)
(***************************************************************************)
WithinCapacity(errors) ==
    /\ errors.count <= errors.capacity
    /\ errors.capacity = 100
    /\ Len(errors.errors) = errors.count

\* C27: the parser's and the analyzer's diagnostic counts never exceed their
\* capacity of 100, and a step that records a diagnostic when the list is
\* full leaves the list and its count as they were.
C27_ChannelsStayWithinCapacity ==
    [][/\ WithinCapacity(g_parser'.errors)
       /\ WithinCapacity(g_analyzer'.errors)
       /\ g_parser.errors.count = g_parser.errors.capacity =>
              g_parser'.errors = g_parser.errors
       /\ g_analyzer.errors.count = g_analyzer.errors.capacity =>
              g_analyzer'.errors = g_analyzer.errors]_vars

\* both lists are full and both have been asked for more: the 34th function
\* without a parameter list brought the parser's count from 99 to 100 and
\* lost two diagnostics, and the analyzer has met a 101st undefined name
C27_Witness ==
    /\ g_parser.errors.count = g_parser.errors.capacity
    /\ pinput = ManyErrors
    /\ g_parser.current >= 68
    /\ g_analyzer.errors.count = g_analyzer.errors.capacity
    /\ sroot = ManyUndefined
    /\ spos > g_analyzer.errors.capacity

(***************************************************************************)
(* The context of the analyzer around a function declaration               *)
(***************************************************************************)
Context(G) == <<G.current_scope, G.in_function, G.current_function_return_type>>

\* the analyzer as it is while the body of a function is analysed
InFunctionBody(G) ==
    [G EXCEPT !.scopes = Append(@, create_symbol_table(G.current_scope)),
              !.current_scope = Len(G.scopes) + 1,
              !.in_function = 1]

FunctionDeclarations ==
    {node \in SemStatements : node.type = "AST_FUNCTION"}
        \cup {OuterFunction, InnerFunction}

\* C28: the analysis of a function declaration leaves the current scope, the
\* in-function flag and the current-function return type as they were before
\* it, for a declaration at the top level and for one inside the body of
\* another function, and it leaves no scope behind; when semantic_analyze
\* returns the current scope is the global scope.
C28_FunctionRestoresContext ==
    [][/\ AboutToAnalyzeFunction =>
              /\ Context(g_analyzer') = Context(g_analyzer)
              /\ Len(g_analyzer'.scopes) = Len(g_analyzer.scopes)
       /\ \A node \in FunctionDeclarations :
              \A G \in {g_analyzer, InFunctionBody(g_analyzer)} :
                  /\ Context(analyze_function(G, node)) = Context(G)
                  /\ Len(analyze_function(G, node).scopes) = Len(G.scopes)
       /\ sstate' = "returned" =>
              g_analyzer'.current_scope = g_analyzer'.global_scope]_vars

\* semantic_analyze has returned from the program with the nested
\* declarations: the return in the outer body, after the inner declaration,
\* was accepted, the return at the top level was rejected, and the analyzer
\* is in the global scope outside every function
C28_Witness ==
    /\ sroot = NestedFunctions
    /\ sstate = "returned"
    /\ CountOf(g_analyzer, "Return statement outside function") = 1
    /\ Context(g_analyzer) = <<g_analyzer.global_scope, 0, NULL>>
    /\ Len(g_analyzer.scopes) = 1

(***************************************************************************)
(* Progress of the lexer                                                   *)
(***************************************************************************)
SamePlace(L1, L2) ==
    /\ L1.position = L2.position
    /\ L1.line = L2.line
    /\ L1.column = L2.column

\* C29: the position of the lexer stays between 0 and the length of the
\* source; a call of lexer_next_token that returns a token other than
\* end-of-input leaves the position strictly greater than it was, so at most
\* source_length tokens come before end-of-input; and after end-of-input has
\* been returned the next call returns end-of-input again and leaves
\* position, line and column where they were.
C29_LexerMakesProgress ==
    LET r == lexer_next_token(lexer)
        again == lexer_next_token(r.lexer)
    IN /\ 0 <= lexer.position
       /\ lexer.position <= lexer.source_length
       /\ r.lexer.position <= lexer.source_length
       /\ r.token.type # "TOKEN_EOF" => r.lexer.position > lexer.position
       /\ r.token.type = "TOKEN_EOF" =>
              /\ again.token.type = "TOKEN_EOF"
              /\ SamePlace(again.lexer, r.lexer)
       /\ Cardinality({i \in 1..Len(lexToks) : lexToks[i].type # "TOKEN_EOF"})
              <= lexer.position
       /\ LexDone => SamePlace(r.lexer, lexer) /\ r.token.type = "TOKEN_EOF"

\* a source of three characters has been read to its end: an unknown
\* character gave one error token and one step, a call skipped a blank, and
\* the end-of-input token has been returned
C29_Witness ==
    /\ LexDone
    /\ lexPass = 1
    /\ lexInput = <<"@", " ", "a">>
    /\ Len(lexToks) = 3
    /\ lexToks[1].type = "TOKEN_ERROR"
    /\ lexer.position = lexer.source_length

(***************************************************************************)
(* Borrow bookkeeping of the memory-safety tracker                         *)
(***************************************************************************)
ValidRegions ==
    {r \in 1..g_safety_context.region_count :
        g_safety_context.regions[r].is_valid = 1}

\* the handles the callers hold on region r and have not released
ValidHandlesOn(r) ==
    {i \in 1..Len(handles) : handles[i].is_valid = 1 /\ handles[i].region = r}

OwnerCanUseAgain(r) ==
    LET region == g_safety_context.regions[r]
    IN /\ safe_free(g_safety_context, region.ptr, region.owner_id).result = 0
       /\ \A new_owner \in Owners :
              safe_move(g_safety_context, region.ptr, region.owner_id,
                        new_owner).result = 0
       /\ safe_borrow_mut(g_safety_context, region.ptr,
                          region.owner_id).handle.is_valid = 1

\* C30: after any sequence of safe_borrow, safe_borrow_mut and
\* safe_release_borrow on a valid region the region is marked borrowed
\* exactly when its borrow count is above 0, and once every borrow handle
\* created on it has been released its owner can free it, move it and
\* borrow it mutably.
ClaimC30_BorrowBookkeepingConsistent ==
    \A r \in ValidRegions :
        /\ g_safety_context.regions[r].is_borrowed = 1
              <=> g_safety_context.regions[r].borrow_count > 0
        /\ ValidHandlesOn(r) = {} => OwnerCanUseAgain(r)

\* what the code keeps: the borrow count of a valid region is the number of
\* unreleased handles on it (so it never goes below 0) and the
\* mutable-borrow mark is set exactly while an unreleased mutable handle
\* exists
C30_CountMatchesHandles ==
    \A r \in ValidRegions :
        /\ g_safety_context.regions[r].borrow_count = Cardinality(ValidHandlesOn(r))
        /\ g_safety_context.regions[r].is_mutable_borrowed = 1
              <=> \E i \in ValidHandlesOn(r) : handles[i].is_mutable = 1
====
